---------------------------- MODULE Spec2Model ----------------------------
(***************************************************************************)
(* A model of xinfo (src/xinfo.c): the parsing of the display name, the     *)
(* credential lookup, the choice and connection of the transport, the X11  *)
(* connection handshake, the decoding of the setup payload, and the        *)
(* request/reply exchanges of the report (BIG-REQUESTS, font path,         *)
(* extension list, extension queries).                                     *)
(*                                                                         *)
(* Memory is modelled as byte sequences: a struct filled by memcpy is the  *)
(* sequence of the bytes copied, and a field is read at its offset in the  *)
(* struct, least significant byte first (the client announces byte order   *)
(* 'l' and copies wire bytes straight into host structs).                  *)
(***************************************************************************)
EXTENDS Integers, Sequences, FiniteSets, TLC

(***************************************************************************)
(* Bounds of the model.                                                    *)
(***************************************************************************)
MaxVendorLen == 1
MaxFormats == 1
MaxScreens == 1
MaxDepths == 1
MaxVisuals == 1
MaxShort == 2

MaxShortTransfers == 1

MaxEintr == 1

MaxCandidates == 2

(***************************************************************************)
(* Program constants.                                                      *)
(***************************************************************************)
X_VERSION_MAJOR == 11
X_VERSION_MINOR == 0
X_REPLY == 1
X_CONNECTION_STATUS_SUCCESS == 1
X_OPCODE_GET_FONT_PATH == 52
X_OPCODE_QUERY_EXTENSION == 98
X_OPCODE_LIST_EXTENSIONS == 99
X_OPCODE_BIG_REQUESTS_ENABLE == 0

X_OPCODE_GLX_QUERY_VERSION == 7

X_OPCODE_MIT_SCREEN_SAVER_QUERY_VERSION == 0

X_OPCODE_SELINUX_QUERY_VERSION == 0

X_OPCODE_XINPUT_EXTENSION_QUERY_VERSION == 47

X_OPCODE_XTEST_QUERY_VERSION == 0
SizeofSetupRequest == 12
SizeofSetupResponse == 8
SizeofSetupDataImpl == 32
SizeofFormat == 8
SizeofScreenData == 40
SizeofDepthData == 8
SizeofVisualType == 24
SizeofReply == 32
ByteOrderLittle == 108
NoFd == -1

(***************************************************************************)
(* Bytes and little-endian fields.                                         *)
(***************************************************************************)
Zeros(n) == [x \in 1..n |-> 0]

LE16(x) == <<x % 256, (x \div 256) % 256>>

LE32(x) == <<x % 256, (x \div 256) % 256, (x \div 65536) % 256, (x \div 16777216) % 256>>

U8(b, off) == b[off + 1]

U16(b, off) == b[off + 1] + 256 * b[off + 2]

U32(b, off) == b[off + 1] + 256 * b[off + 2] + 65536 * b[off + 3] + 16777216 * b[off + 4]

RECURSIVE Concat(_)
Concat(ss) == IF ss = <<>> THEN <<>> ELSE Head(ss) \o Concat(Tail(ss))

\* X_PADDING without its outer % 4.
X_PADDING_NoOuterMod(x) == 4 - (x % 4)

X_PADDING(x) == (4 - (x % 4)) % 4

X_PAD(x) == x + X_PADDING(x)

\* memcpy from one byte too far.
MemcpyFrom_OneTooFar(buf, off, n, g) ==
  [x \in 1..n |-> IF off + 1 + x <= Len(buf) THEN buf[off + 1 + x] ELSE g]

(***************************************************************************)
(* memcpy(dst, buf + off, n): the n bytes read.  A byte at an offset past  *)
(* the end of buf is outside the allocation: reading it is undefined, and  *)
(* the byte read, when the read does not fault, is g.                      *)
(***************************************************************************)
MemcpyFrom(buf, off, n, g) == [x \in 1..n |-> IF off + x <= Len(buf) THEN buf[off + x] ELSE g]

ReadsPastEnd(buf, off, n) == n > 0 /\ off + n > Len(buf)


(***************************************************************************)
(* Field accessors of the wire structs (offsets of the struct members).    *)
(***************************************************************************)
resp_status(r) == U8(r, 0)

resp_version_major(r) == U16(r, 2)

resp_version_minor(r) == U16(r, 4)

resp_additional_data_len(r) == U16(r, 6)

vendor_length(d) == U16(d, 16)

maximum_request_len(d) == U16(d, 18)

num_roots(d) == U8(d, 20)

num_pixmap_formats(d) == U8(d, 21)

num_allowed_depths(sd) == U8(sd, 39)

depth_depth(dd) == U8(dd, 0)

num_visuals(dd) == U16(dd, 2)

visual_id(v) == U32(v, 0)

visual_class(v) == U8(v, 4)

red_mask(v) == U32(v, 8)

green_mask(v) == U32(v, 12)

blue_mask(v) == U32(v, 16)

format_depth(f) == U8(f, 0)

format_bits_per_pixel(f) == U8(f, 1)

format_scanline_pad(f) == U8(f, 2)

(***************************************************************************)
(* The server side of the handshake: the bytes of a setup response.  A     *)
(* description lists the vendor name, the pixmap formats and the screens   *)
(* with their depths and visuals; EncSetup lays it out as the protocol     *)
(* does, the vendor name unpadded and the whole section padded to a        *)
(* multiple of 4.                                                          *)
(***************************************************************************)
EncFormat(f) == <<f.depth, f.bpp, f.pad>> \o Zeros(5)

EncVisual(v) ==
  LE32(v.id) \o <<v.class, 8>> \o LE16(256) \o LE32(v.red) \o LE32(v.green) \o LE32(v.blue) \o Zeros(4)

EncDepth(d) ==
  <<d.depth, 0>> \o LE16(Len(d.visuals)) \o Zeros(4)
    \o Concat([k \in 1..Len(d.visuals) |-> EncVisual(d.visuals[k])])

EncScreen(s) ==
  LE32(s.root) \o LE32(32) \o LE32(16777215) \o LE32(0) \o LE32(0)
    \o LE16(1920) \o LE16(1080) \o LE16(508) \o LE16(285) \o LE16(1) \o LE16(1)
    \o LE32(33) \o <<0, 0, 24, Len(s.depths)>>
    \o Concat([j \in 1..Len(s.depths) |-> EncDepth(s.depths[j])])

EncSetupUnpadded(desc) ==
  LE32(12101004) \o LE32(4194304) \o LE32(2097151) \o LE32(256)
    \o LE16(Len(desc.vendor)) \o LE16(65535)
    \o <<Len(desc.screens), Len(desc.formats), 0, 0, 32, 32, 8, 255>> \o Zeros(4)
    \o desc.vendor
    \o Concat([m \in 1..Len(desc.formats) |-> EncFormat(desc.formats[m])])
    \o Concat([i \in 1..Len(desc.screens) |-> EncScreen(desc.screens[i])])

EncSetup(desc) ==
  LET raw == EncSetupUnpadded(desc) IN raw \o Zeros(X_PADDING(Len(raw)))

MkVisual(i, j, k) ==
  [id |-> 32 + 16 * i + 4 * j + k, class |-> 4,
   red |-> 16711680, green |-> 65280, blue |-> 255 - k]

\* The family of descriptions of the bounds: screen i has (D + i - 1) depths
\* and depth j of screen i has (V + i + j - 2) visuals, modulo the bounds.
MkDesc(L, F, N, D, V) ==
  [vendor |-> [x \in 1..L |-> 64 + x],
   formats |-> [m \in 1..F |-> [depth |-> 8 * m, bpp |-> 8 * m, pad |-> 32]],
   screens |-> [i \in 1..N |->
      [root |-> 256 * i + 7,
       depths |-> [j \in 1..((D + i - 1) % (MaxDepths + 1)) |->
          [depth |-> 8 * j + i,
           visuals |-> [k \in 1..((V + i + j - 2) % (MaxVisuals + 1)) |-> MkVisual(i, j, k)]]]]]]

\* The number of pixmap formats follows the other counts, so that it takes
\* every value up to MaxFormats.
FamilyDescs ==
  {MkDesc(L, (L + N) % (MaxFormats + 1), N, D, V) : L \in 0..MaxVendorLen,
     N \in 0..MaxScreens, D \in 0..MaxDepths, V \in 0..MaxVisuals}

\* The end-to-end scenario: 1 pixmap format (24, 32, 32), 1 screen, 1 depth
\* (24), 1 visual (id 0x21, class 4, masks 0xff0000, 0x00ff00, 0x0000ff).
E2EDesc ==
  [vendor |-> <<>>,
   formats |-> <<[depth |-> 24, bpp |-> 32, pad |-> 32]>>,
   screens |-> <<[root |-> 1319,
      depths |-> <<[depth |-> 24,
         visuals |-> <<[id |-> 33, class |-> 4, red |-> 16711680, green |-> 65280, blue |-> 255]>>]>>]>>]

\* Two screens with differing nested counts and a vendor name of 4 bytes.
TwoScreenDesc ==
  [vendor |-> <<65, 67, 77, 69>>,
   formats |-> <<[depth |-> 1, bpp |-> 1, pad |-> 32], [depth |-> 24, bpp |-> 32, pad |-> 32]>>,
   screens |-> <<
      [root |-> 300, depths |-> <<
          [depth |-> 24, visuals |-> <<MkVisual(1, 1, 1), MkVisual(1, 1, 2)>>],
          [depth |-> 1, visuals |-> <<>>]>>],
      [root |-> 301, depths |-> <<
          [depth |-> 32, visuals |-> <<MkVisual(2, 1, 1)>>]>>]>>]

RespHeader(status, words) ==
  <<status, 0>> \o LE16(X_VERSION_MAJOR) \o LE16(X_VERSION_MINOR) \o LE16(words)

\* A response whose additional data is the first 4 * words bytes of data.
Resp(status, data, words) == RespHeader(status, words) \o SubSeq(data, 1, 4 * words)

Words(data) == Len(data) \div 4

\* The lengths, in 4-byte units, a payload is announced with: its own length,
\* nothing, the fixed header alone, one unit less than its own length.
AnnouncedWords(data) == {w \in {Words(data), 0, 8, Words(data) - 1} : w >= 0 /\ w <= Words(data)}

\* What the server sends for the handshake: bytes, then either silence or
\* end of stream.
Accepting(descs) ==
  UNION {{[bytes |-> Resp(X_CONNECTION_STATUS_SUCCESS, EncSetup(d), w), closed |-> FALSE] :
            w \in AnnouncedWords(EncSetup(d))} : d \in descs}

ExactlySized(d) ==
  [bytes |-> Resp(X_CONNECTION_STATUS_SUCCESS, EncSetup(d), Words(EncSetup(d))), closed |-> FALSE]

\* A refusal: status 0 and a reason ("No" and NUL bytes, "Nope" without a
\* NUL, no reason at all, or "No" followed by two bytes the header does not
\* announce).
Rejecting ==
  {[bytes |-> Resp(0, <<78, 111, 0, 0>>, 1), closed |-> TRUE],
   [bytes |-> Resp(0, <<78, 111, 112, 101>>, 1), closed |-> TRUE],
   [bytes |-> Resp(0, <<>>, 0), closed |-> TRUE],
   [bytes |-> Resp(0, <<78, 111, 0, 0>>, 1) \o <<9, 9>>, closed |-> TRUE]}

\* A server that stops sending part-way: in the header, or one byte before
\* the end of the additional data.
CutShort(r) ==
  {[bytes |-> SubSeq(r.bytes, 1, n), closed |-> TRUE] : n \in {0, 3, Len(r.bytes) - 1}}

NoCredential == [name |-> <<>>, data |-> <<>>]

MitCredential == [name |-> <<77, 73, 84>>, data |-> <<222, 173, 190, 239, 1>>]

GarbageBytes == {0, 1}

(***************************************************************************)
(* The environment of the process: the value of DISPLAY, the Xauthority    *)
(* file, the name gethostname gives.  Strings are the bytes of C strings,  *)
(* without the terminating NUL.                                            *)
(***************************************************************************)
\* A number in decimal.
RECURSIVE Digits(_)
Digits(n) == IF n < 10 THEN <<48 + n>> ELSE Digits(n \div 10) \o <<48 + (n % 10)>>

\* The display name "host:number" or "host:number.screen" (screen -1: none).
Display(host, number, screen) ==
  [set |-> TRUE, host |-> host, number |-> number, screen |-> screen,
   name |-> host \o <<58>> \o Digits(number)
              \o (IF screen < 0 THEN <<>> ELSE <<46>> \o Digits(screen))]

\* DISPLAY is not set: x_connect takes ":0".
NoDisplay == [set |-> FALSE, host |-> <<>>, number |-> 0, screen |-> -1, name |-> <<>>]

\* ":99999999999999999999", a sequence number no unsigned long holds.
HugeDisplay ==
  [set |-> TRUE, host |-> <<>>, number |-> -1, screen |-> -1,
   name |-> <<58>> \o [x \in 1..20 |-> 57]]

\* The displays ":0", ":2", ":1.2", ":10.0", "ab:0", "ab:1.1", "a/unix:0".
Displays ==
  {NoDisplay, Display(<<>>, 0, -1), Display(<<>>, 2, -1), Display(<<>>, 1, 2),
   Display(<<>>, 10, 0),
   Display(<<97, 98>>, 0, -1), Display(<<97, 98>>, 1, 1),
   Display(<<97, 47, 117, 110, 105, 120>>, 0, -1), HugeDisplay}

\* An entry of the Xauthority file: family, address, display number, and
\* the credential (protocol name and protocol data).
XauthRecord(address, number, cred) ==
  [family |-> 256, address |-> address, number |-> Digits(number),
   name |-> cred.name, data |-> cred.data]

\* A counted string of the file: the length, most significant byte first,
\* then the bytes.
EncCounted(str) == <<Len(str) \div 256, Len(str) % 256>> \o str

EncRecord(r) ==
  <<r.family \div 256, r.family % 256>> \o EncCounted(r.address) \o EncCounted(r.number)
    \o EncCounted(r.name) \o EncCounted(r.data)

\* The bytes of a file holding the records, without its last cut bytes.
XauthorityBytes(x) ==
  SubSeq(Concat([n \in 1..Len(x.records) |-> EncRecord(x.records[n])]), 1,
         Len(Concat([n \in 1..Len(x.records) |-> EncRecord(x.records[n])])) - x.cut)

Xauthority(records) == [readable |-> TRUE, records |-> records, cut |-> 0]

OtherCredential == [name |-> <<88>>, data |-> <<7, 7>>]

\* The local host is "h".  The files: none that can be opened; no entry;
\* one entry of the local host's display 0, with the MIT credential or an
\* empty one; an entry of display 1 only; two entries of display 0, either
\* way round; entries of other displays around one of display 0, and one
\* of host "a"; two entries the second of which lacks its last two bytes;
\* entries of the hosts "a/uni" and "a".
XauthorityFiles ==
  {[readable |-> FALSE, records |-> <<>>, cut |-> 0],
   Xauthority(<<>>),
   Xauthority(<<XauthRecord(<<104>>, 0, MitCredential)>>),
   Xauthority(<<XauthRecord(<<104>>, 0, NoCredential)>>),
   Xauthority(<<XauthRecord(<<104>>, 1, OtherCredential)>>),
   Xauthority(<<XauthRecord(<<104>>, 0, MitCredential), XauthRecord(<<104>>, 0, OtherCredential)>>),
   Xauthority(<<XauthRecord(<<104>>, 0, OtherCredential), XauthRecord(<<104>>, 0, MitCredential)>>),
   Xauthority(<<XauthRecord(<<104>>, 1, OtherCredential), XauthRecord(<<104>>, 0, MitCredential),
                XauthRecord(<<97>>, 0, OtherCredential), XauthRecord(<<104>>, 10, NoCredential)>>),
   [readable |-> TRUE, cut |-> 2,
    records |-> <<XauthRecord(<<104>>, 0, MitCredential), XauthRecord(<<104>>, 0, OtherCredential)>>],
   Xauthority(<<XauthRecord(<<97, 47, 117, 110, 105>>, 0, MitCredential),
                XauthRecord(<<97>>, 1, OtherCredential)>>)}

Environment(display, xauthority) ==
  [display |-> display, xauthority |-> xauthority, localhost |-> <<104>>]

\* DISPLAY is not set and the file holds the MIT credential of display 0.
HomeEnv == Environment(NoDisplay, Xauthority(<<XauthRecord(<<104>>, 0, MitCredential)>>))

\* The same display with an empty credential.
EmptyCredentialEnv ==
  Environment(Display(<<>>, 0, -1), Xauthority(<<XauthRecord(<<104>>, 0, NoCredential)>>))

\* A display reached over the network.
RemoteEnv ==
  Environment(Display(<<97, 98>>, 0, -1), Xauthority(<<XauthRecord(<<97>>, 0, MitCredential)>>))

Environments == {Environment(d, x) : d \in Displays, x \in XauthorityFiles}

\* A server and the environment of the process that connects to it.
InWorlds(responses, envs) == {[srv |-> r, env |-> e] : r \in responses, e \in envs}

(***************************************************************************)
(* The server after the handshake: the replies it may send to a request.   *)
(***************************************************************************)
Reply32(status, byte1, words, body) ==
  <<status, byte1, 0, 0>> \o LE32(words) \o body \o Zeros(24 - Len(body))

ErrorReply == <<0, 1, 0, 0>> \o Zeros(28)

Sends(bytes) == [bytes |-> bytes, closed |-> FALSE]

Hangup == [bytes |-> <<>>, closed |-> TRUE]

Holds(names, name) == \E x \in 1..Len(names) : names[x] = name

\* What the answers of the server settled about its extensions: nothing
\* yet, whether it holds BIG-REQUESTS ("asked", before it sent its list),
\* the list it sent and answers by ("listed"), or that it answers each
\* request on its own ("any").
Undecided == [mode |-> "undecided", big |-> FALSE, names |-> <<>>]

AnyServer == [mode |-> "any", big |-> FALSE, names |-> <<>>]

Asked(big) == [mode |-> "asked", big |-> big, names |-> <<>>]

Listed(names, big) == [mode |-> "listed", big |-> big, names |-> names]

\* The major opcode a consistent server gives the extension of a name:
\* 128 to BIG-REQUESTS, and to the others 128 plus the length of the name.
ServerOpcode(name) == IF Len(name) = 12 THEN 128 ELSE 128 + Len(name)

ConsistentQueryExtensionAnswer(present, name) ==
  Sends(Reply32(X_REPLY, 0, 0, IF present THEN <<1, ServerOpcode(name)>> ELSE <<0, 128>>))

\* The extension is present with major opcode 128, or absent (the opcode
\* field then holds a value that means nothing).
QueryExtensionAnswers ==
  {Sends(Reply32(X_REPLY, 0, 0, <<1, 128>>)), Sends(Reply32(X_REPLY, 0, 0, <<0, 128>>)),
   Sends(ErrorReply), Hangup}

BigRequestsAnswers ==
  {Sends(Reply32(X_REPLY, 0, 0, LE32(4194303))), Sends(ErrorReply), Hangup}

\* A list of strings, each preceded by its length, padded to a multiple of 4.
RECURSIVE EncStrings(_)
EncStrings(strs) ==
  IF strs = <<>> THEN <<>> ELSE <<Len(Head(strs))>> \o Head(strs) \o EncStrings(Tail(strs))

PadTo4(bytes) == bytes \o Zeros(X_PAD(Len(bytes)) - Len(bytes))

FontPathReply(paths, words) ==
  Reply32(X_REPLY, 0, words, LE16(Len(paths))) \o SubSeq(PadTo4(EncStrings(paths)), 1, 4 * words)

ListExtensionsReply(names, words) ==
  Reply32(X_REPLY, Len(names), words, <<>>) \o SubSeq(PadTo4(EncStrings(names)), 1, 4 * words)

\* No path or the path "/f2", with the length the list needs and with no
\* data at all.
FontPathAnswers ==
  UNION {{Sends(FontPathReply(p, w)) : w \in {Len(PadTo4(EncStrings(p))) \div 4, 0}} :
           p \in {<<>>, <<(<<47, 102, 50>>)>>}}
    \cup {Sends(ErrorReply), Hangup}

VersionReply(layout, major, minor) ==
  CASE layout = "v8" -> Reply32(X_REPLY, 0, 0, <<major, minor>>)
    [] layout = "v16" -> Reply32(X_REPLY, 0, 0, LE16(major) \o LE16(minor))
    [] layout = "v32" -> Reply32(X_REPLY, 0, 0, LE32(major) \o LE32(minor))
    [] layout = "xtest" -> Reply32(X_REPLY, major, 0, LE16(minor))

\* The server holds version 2.4 of every extension.
VersionAnswers(layout) ==
  {Sends(VersionReply(layout, 2, 4)), Sends(ErrorReply), Hangup}


(***************************************************************************)
(* State.                                                                  *)
(***************************************************************************)
VARIABLES
  pc,              \* where the run is
  fd,              \* x_connection.fd
  opens,           \* how many connected sockets the run created
  fd_open,         \* whether the descriptor of the connection is open
  closes,          \* how many times close() was called on it
  released,        \* whether x_disconnect released the decoded lists
  exit_status,     \* -1 while running, then the exit status
  err,             \* the message die() was called with
  env,             \* DISPLAY, the Xauthority file and the name of the local host
  target,          \* what parse_x_display_name stored: hostname, hostname_len, number, screen
  transport,       \* "unix" or "tcp" once get_socket_for_display chose, "none" before
  info,            \* how many address candidates getaddrinfo returned
  current_info,    \* the candidate the loop of get_socket_for_display is at, from 1
  sock,            \* fd of get_socket_for_display
  net,             \* the socket calls made so far, in order: op, cand, ok
  auth,            \* the credential handed to the handshake
  auth_data,       \* the buffer holding the protocol data read from the Xauthority file
  request_buffer,  \* the buffer holding the setup request
  freed,           \* the buffers passed to free(), with the bytes they held then
  sent,            \* how many bytes of the setup request write() took
  srv,             \* what the server sends in answer to the setup request
  inbuf,           \* bytes sent by the server and not read yet
  srv_closed,      \* whether end of stream follows the bytes of inbuf
  broken,          \* whether a system call failed with an error other than EINTR
  srv_ext,         \* the extensions the server holds, as far as its answers settled them
  io,              \* the running read_n or write_n call: site, buf, n, total, off, eintr
  sys,             \* the last read() or write() system call: op, off, len, res
  wire,            \* bytes the system calls of the running call transferred, in order
  ret,             \* the value the last read_n, write_n or read returned
  awaiting,        \* a request was written in full and no read was made since
  response,        \* struct x_setup_response
  additional_data, \* the buffer of the additional data
  curr,            \* curr_data - additional_data
  i, j, k,         \* loop indices of the decoder
  garbage,         \* the byte that reads past a buffer yield, -1 before any
  oob,             \* where a read past the end of a buffer happened
  setup,           \* x_connection.setup_data
  qsite,           \* the caller of the running x_get_extension_opcode
  qname,           \* its argument
  opcode,          \* its result
  max_request_len, \* the maximum request length of the report
  reply,           \* the reply header of the font path or extension list
  extension_names, \* the names of print_x_extensions
  version,         \* the outcome of the last version query: ok, major, minor
  printed,         \* the lines print_x_extensions printed: name and version
  reported         \* the failures reported without ending the run

connVars == <<fd, opens, fd_open, closes, released>>

exitVars == <<exit_status, err>>

srvVars == <<srv, inbuf, srv_closed, broken, srv_ext>>

ioVars == <<io, sys, wire, ret, awaiting>>

decVars == <<response, additional_data, curr, i, j, k, garbage, oob>>

extVars == <<qsite, qname, opcode, max_request_len, reply, extension_names, version, printed, reported>>

lookupVars == <<env, target, transport, info, current_info, sock, net>>

authVars == <<auth, auth_data, lookupVars, request_buffer, freed, sent>>

vars == <<pc, connVars, exitVars, authVars, srvVars, ioVars, decVars, setup, extVars>>

Null == [null |-> TRUE, mem |-> <<>>]

Calloc(mem) == [null |-> FALSE, mem |-> mem]

\* calloc of one element too many.
calloc_OneMore(nmemb, elem) == Calloc([x \in 1..(nmemb + 1) |-> elem])

\* calloc(nmemb, size): an array of nmemb zeroed elements.
calloc(nmemb, elem) == Calloc([x \in 1..nmemb |-> elem])

NoCall == [site |-> "none", buf |-> <<>>, n |-> 0, total |-> 0, off |-> 0, eintr |-> 0, short |-> 0]

\* The state of read_n or write_n on entry: total_read or total_written is 0
\* and buf points at the start of the buffer.
Call(site, buf, n) ==
  [site |-> site, buf |-> buf, n |-> n, total |-> 0, off |-> 0, eintr |-> 0, short |-> 0]

NoSys == [op |-> "none", off |-> 0, len |-> 0, res |-> "none"]

NoAuth == [name |-> <<>>, data |-> <<>>]

\* Before parse_x_display_name: hostname is all zeros, the rest is 0.
NoTarget == [hostname |-> <<>>, hostname_len |-> 0, number |-> 0, screen |-> 0]

NoVersion == [ok |-> FALSE, major |-> 0, minor |-> 0]

ZeroSetup ==
  [data |-> Zeros(SizeofSetupDataImpl), vendor_name |-> Null, pixmap_formats |-> Null,
   roots |-> Null, version_major |-> 0, version_minor |-> 0]

\* The state when main starts, in one of the given worlds: what the server
\* sends for the handshake, and the environment of the process.
InitWith(worlds) ==
  /\ pc = "start"
  /\ fd = NoFd /\ opens = 0 /\ fd_open = FALSE /\ closes = 0 /\ released = FALSE
  /\ exit_status = -1 /\ err = ""
  /\ auth = NoAuth /\ auth_data = Null /\ request_buffer = Null /\ freed = {} /\ sent = 0
  /\ target = NoTarget /\ transport = "none" /\ info = 0 /\ current_info = 0
  /\ sock = NoFd /\ net = <<>>
  /\ \E w \in worlds : srv = w.srv /\ env = w.env
  /\ inbuf = <<>> /\ srv_closed = FALSE /\ broken = FALSE /\ srv_ext = Undecided
  /\ io = NoCall /\ sys = NoSys /\ wire = <<>> /\ ret = 0 /\ awaiting = FALSE
  /\ response = Zeros(SizeofSetupResponse)
  /\ additional_data = Null
  /\ curr = 0 /\ i = 0 /\ j = 0 /\ k = 0
  /\ garbage = -1 /\ oob = {}
  /\ setup = ZeroSetup
  /\ qsite = "none" /\ qname = <<>> /\ opcode = 0 /\ max_request_len = 0
  /\ reply = Zeros(SizeofReply) /\ extension_names = <<>>
  /\ version = NoVersion /\ printed = <<>> /\ reported = {}

(***************************************************************************)
(* die and x_disconnect.                                                   *)
(***************************************************************************)
die(msg) == pc' = "exited" /\ exit_status' = 1 /\ err' = msg

x_disconnect ==
  /\ fd' = NoFd
  /\ opens' = opens
  /\ fd_open' = IF fd # NoFd THEN FALSE ELSE fd_open
  /\ closes' = IF fd # NoFd THEN closes + 1 ELSE closes
  /\ released' = TRUE


\* write_n that does not advance buf after a partial write.
write_n_iter_SameOffset(c, o) ==
  CASE o.kind = "n" ->
         [c |-> [c EXCEPT !.total = c.total + o.k],
          done |-> ~(c.total + o.k < c.n), ret |-> c.total + o.k]
    [] o.kind = "eintr" ->
         [c |-> [c EXCEPT !.eintr = c.eintr + 1], done |-> FALSE, ret |-> 0]
    [] OTHER -> [c |-> c, done |-> TRUE, ret |-> -1]

\* read_n that takes end of stream for an error.
read_n_iter_EofIsError(c, o, data) ==
  CASE o.kind = "n" ->
         [c |-> [c EXCEPT !.total = c.total + o.k, !.off = c.off + o.k,
                          !.buf = [x \in 1..Len(c.buf) |->
                                     IF c.off < x /\ x <= c.off + o.k
                                     THEN data[x - c.off] ELSE c.buf[x]]],
          done |-> ~(c.total + o.k < c.n), ret |-> c.total + o.k]
    [] o.kind = "eintr" ->
         [c |-> [c EXCEPT !.eintr = c.eintr + 1], done |-> FALSE, ret |-> 0]
    [] OTHER -> [c |-> c, done |-> TRUE, ret |-> -1]

\* write_n that calls write again after a write that returned 0.
write_n_iter_ZeroRetries(c, o) ==
  CASE o.kind = "n" ->
         [c |-> [c EXCEPT !.total = c.total + o.k, !.off = c.off + o.k],
          done |-> ~(c.total + o.k < c.n), ret |-> c.total + o.k]
    [] o.kind \in {"eintr", "zero"} ->
         [c |-> [c EXCEPT !.eintr = c.eintr + 1], done |-> FALSE, ret |-> 0]
    [] OTHER -> [c |-> c, done |-> TRUE, ret |-> -1]

(***************************************************************************)
(* write_n and read_n: one iteration of the loop, given the outcome o of   *)
(* the system call: "n" with k bytes transferred, "zero" (write returned   *)
(* 0), "eof" (read returned 0), "eintr" (-1 with EINTR), "err" (-1 with    *)
(* another errno).  c is the state of the call; the result holds the new   *)
(* state, whether the function returns, and the value it returns.          *)
(***************************************************************************)
write_n_iter(c, o) ==
  CASE o.kind = "n" ->
         [c |-> [c EXCEPT !.total = c.total + o.k, !.off = c.off + o.k],
          done |-> ~(c.total + o.k < c.n), ret |-> c.total + o.k]
    [] o.kind = "eintr" ->
         [c |-> [c EXCEPT !.eintr = c.eintr + 1], done |-> FALSE, ret |-> 0]
    [] OTHER -> [c |-> c, done |-> TRUE, ret |-> -1]

\* data: the bytes the system call stored at buf (the call was given buf + off).
read_n_iter(c, o, data) ==
  CASE o.kind = "n" ->
         [c |-> [c EXCEPT !.total = c.total + o.k, !.off = c.off + o.k,
                          !.buf = [x \in 1..Len(c.buf) |->
                                     IF c.off < x /\ x <= c.off + o.k
                                     THEN data[x - c.off] ELSE c.buf[x]]],
          done |-> ~(c.total + o.k < c.n), ret |-> c.total + o.k]
    [] o.kind = "eof" -> [c |-> c, done |-> TRUE, ret |-> c.total]
    [] o.kind = "eintr" ->
         [c |-> [c EXCEPT !.eintr = c.eintr + 1], done |-> FALSE, ret |-> 0]
    [] OTHER -> [c |-> c, done |-> TRUE, ret |-> -1]

(***************************************************************************)
(* The transport: what a system call asked for len bytes may do.           *)
(***************************************************************************)
\* A call transfers all it was asked for, or up to MaxShort bytes; at most
\* MaxShortTransfers calls of one write_n or read_n are short.
TransferSizes(len, shorts) ==
  {n \in 1..len : n = len \/ (n <= MaxShort /\ shorts < MaxShortTransfers)}

\* The bookkeeping of the transport in the state of a call.
Transferred(c, o, len) ==
  IF o.kind = "n" /\ o.k < len THEN [c EXCEPT !.short = c.short + 1] ELSE c

\* Once a call failed with an error other than EINTR the connection is
\* lost, and every later call fails.
WriteOutcomes(c) ==
  IF broken THEN {[kind |-> "err", k |-> 0]}
  ELSE {[kind |-> "n", k |-> n] : n \in TransferSizes(c.n - c.total, c.short)}
         \cup {[kind |-> "zero", k |-> 0], [kind |-> "err", k |-> 0]}
         \cup {[kind |-> "eintr", k |-> 0] : x \in {e \in {c.eintr} : e < MaxEintr}}

\* A read blocks while nothing has arrived and the stream has not ended.
ReadOutcomes(len, eintrs, shorts) ==
  IF broken THEN {[kind |-> "err", k |-> 0]}
  ELSE {[kind |-> "n", k |-> n] :
          n \in {m \in TransferSizes(len, shorts) : m <= Len(inbuf)}
                 \cup {m \in {Len(inbuf)} : 0 < m /\ m < len}}
         \cup {[kind |-> "eof", k |-> 0] : x \in {b \in {srv_closed} : b /\ inbuf = <<>>}}
         \cup {[kind |-> "err", k |-> 0]}
         \cup {[kind |-> "eintr", k |-> 0] : x \in {e \in {eintrs} : e < MaxEintr}}

(***************************************************************************)
(* The setup request (x_connect_to_socket, the request buffer).            *)
(***************************************************************************)
\* The setup request with the credential data put right after the name.
SetupRequest_DataAfterName(name, data) ==
  <<ByteOrderLittle, 0>> \o LE16(X_VERSION_MAJOR) \o LE16(X_VERSION_MINOR)
    \o LE16(Len(name)) \o LE16(Len(data)) \o <<0, 0>>
    \o name \o data
    \o Zeros(X_PAD(Len(name)) - Len(name)) \o Zeros(X_PAD(Len(data)) - Len(data))


SetupRequest(name, data) ==
  <<ByteOrderLittle, 0>> \o LE16(X_VERSION_MAJOR) \o LE16(X_VERSION_MINOR)
    \o LE16(Len(name)) \o LE16(Len(data)) \o <<0, 0>>
    \o name \o Zeros(X_PAD(Len(name)) - Len(name))
    \o data \o Zeros(X_PAD(Len(data)) - Len(data))


(***************************************************************************)
(* Extension names, as the bytes of the C strings.                         *)
(***************************************************************************)
X_EXTENSION_NAME_BIG_REQUESTS == <<66, 73, 71, 45, 82, 69, 81, 85, 69, 83, 84, 83>>  \* "BIG-REQUESTS"

X_EXTENSION_NAME_GLX == <<71, 76, 88>>  \* "GLX"

X_EXTENSION_NAME_NV_GLX == <<78, 86, 45, 71, 76, 88>>  \* "NV-GLX"

X_EXTENSION_NAME_XTEST == <<88, 84, 69, 83, 84>>  \* "XTEST"

\* The version table: name and version query function of each entry.
x_extensions == <<
  [name |-> <<65, 112, 112, 108, 101, 45, 68, 82, 73>>,  \* "Apple-DRI"
   version_query_func |-> "x_generic_query_version16_noparam_zero"],
  [name |-> <<65, 112, 112, 108, 101, 45, 87, 77>>,  \* "Apple-WM"
   version_query_func |-> "x_generic_query_version16_noparam_zero"],
  [name |-> X_EXTENSION_NAME_BIG_REQUESTS, version_query_func |-> "x_big_request_query_version"],
  [name |-> <<67, 111, 109, 112, 111, 115, 105, 116, 101>>,  \* "Composite"
   version_query_func |-> "x_generic_query_version32_zero"],
  [name |-> <<68, 65, 77, 65, 71, 69>>,  \* "DAMAGE"
   version_query_func |-> "x_generic_query_version32_zero"],
  [name |-> <<68, 79, 85, 66, 76, 69, 45, 66, 85, 70, 70, 69, 82>>,  \* "DOUBLE-BUFFER"
   version_query_func |-> "x_generic_query_version8_zero"],
  [name |-> <<68, 80, 77, 83>>,  \* "DPMS"
   version_query_func |-> "x_generic_query_version16_zero"],
  [name |-> <<68, 77, 88>>,  \* "DMX"
   version_query_func |-> "x_generic_query_version32_noparam_zero"],
  [name |-> <<68, 82, 73, 50>>,  \* "DRI2"
   version_query_func |-> "x_generic_query_version32_zero"],
  [name |-> <<68, 82, 73, 51>>,  \* "DRI3"
   version_query_func |-> "x_generic_query_version32_zero"],
  [name |-> <<69, 120, 116, 101, 110, 100, 101, 100, 45, 86, 105, 115, 117, 97, 108, 45, 73, 110, 102, 111, 114, 109, 97, 116, 105, 111, 110>>,  \* "Extended-Visual-Information"
   version_query_func |-> "x_generic_query_version16_noparam_zero"],
  [name |-> <<70, 111, 110, 116, 67, 97, 99, 104, 101>>,  \* "FontCache"
   version_query_func |-> "x_generic_query_version16_noparam_zero"],
  [name |-> X_EXTENSION_NAME_GLX, version_query_func |-> "x_glx_query_version"],
  [name |-> <<71, 101, 110, 101, 114, 105, 99, 32, 69, 118, 101, 110, 116, 32, 69, 120, 116, 101, 110, 115, 105, 111, 110>>,  \* "Generic Event Extension"
   version_query_func |-> "x_generic_query_version16_zero"],
  [name |-> <<76, 66, 88>>,  \* "LBX"
   version_query_func |-> "x_generic_query_version16_noparam_zero"],
  [name |-> <<76, 71, 69>>,  \* "LGE"
   version_query_func |-> "x_generic_query_version32_noparam_zero"],
  [name |-> <<77, 73, 84, 45, 83, 67, 82, 69, 69, 78, 45, 83, 65, 86, 69, 82>>,  \* "MIT-SCREEN-SAVER"
   version_query_func |-> "x_mit_screen_saver_query_version"],
  [name |-> <<77, 73, 84, 45, 83, 72, 77>>,  \* "MIT-SHM"
   version_query_func |-> "x_generic_query_version16_noparam_zero"],
  [name |-> <<78, 86, 45, 67, 79, 78, 84, 82, 79, 76>>,  \* "NV-CONTROL"
   version_query_func |-> "x_generic_query_version16_noparam_zero"],
  [name |-> X_EXTENSION_NAME_NV_GLX, version_query_func |-> "x_invalid_query_version"],
  [name |-> <<80, 114, 101, 115, 101, 110, 116>>,  \* "Present"
   version_query_func |-> "x_generic_query_version32_zero"],
  [name |-> <<82, 65, 78, 68, 82>>,  \* "RANDR"
   version_query_func |-> "x_generic_query_version32_zero"],
  [name |-> <<82, 69, 67, 79, 82, 68>>,  \* "RECORD"
   version_query_func |-> "x_generic_query_version16_zero"],
  [name |-> <<82, 69, 78, 68, 69, 82>>,  \* "RENDER"
   version_query_func |-> "x_generic_query_version32_zero"],
  [name |-> <<83, 69, 67, 85, 82, 73, 84, 89>>,  \* "SECURITY"
   version_query_func |-> "x_generic_query_version16_zero"],
  [name |-> <<83, 69, 76, 105, 110, 117, 120>>,  \* "SELinux"
   version_query_func |-> "x_selinux_query_version"],
  [name |-> <<83, 71, 73, 45, 71, 76, 88>>,  \* "SGI-GLX"
   version_query_func |-> "x_glx_query_version"],
  [name |-> <<83, 72, 65, 80, 69>>,  \* "SHAPE"
   version_query_func |-> "x_generic_query_version16_noparam_zero"],
  [name |-> <<83, 89, 78, 67>>,  \* "SYNC"
   version_query_func |-> "x_generic_query_version8_zero"],
  [name |-> <<84, 79, 71, 45, 67, 85, 80>>,  \* "TOG-CUP"
   version_query_func |-> "x_generic_query_version16_zero"],
  [name |-> <<87, 105, 110, 100, 111, 119, 115, 45, 87, 77>>,  \* "Windows-WM"
   version_query_func |-> "x_generic_query_version16_noparam_zero"],
  [name |-> <<88, 45, 82, 101, 115, 111, 117, 114, 99, 101>>,  \* "X-Resource"
   version_query_func |-> "x_generic_query_version8_zero"],
  [name |-> <<88, 67, 45, 65, 80, 80, 71, 82, 79, 85, 80>>,  \* "XC-APPGROUP"
   version_query_func |-> "x_generic_query_version16_zero"],
  [name |-> <<88, 67, 45, 77, 73, 83, 67>>,  \* "XC-MISC"
   version_query_func |-> "x_generic_query_version16_zero"],
  [name |-> <<88, 67, 45, 86, 105, 100, 77, 111, 100, 101, 69, 120, 116, 101, 110, 115, 105, 111, 110>>,  \* "XC-VidModeExtension"
   version_query_func |-> "x_generic_query_version16_noparam_zero"],
  [name |-> <<88, 67, 65, 76, 73, 66, 82, 65, 84, 69>>,  \* "XCALIBRATE"
   version_query_func |-> "x_generic_query_version32_zero"],
  [name |-> <<88, 70, 73, 88, 69, 83>>,  \* "XFIXES"
   version_query_func |-> "x_generic_query_version32_zero"],
  [name |-> <<88, 70, 114, 101, 101, 56, 54, 45, 66, 105, 103, 102, 111, 110, 116>>,  \* "XFree86-Bigfont"
   version_query_func |-> "x_generic_query_version16_noparam_zero"],
  [name |-> <<88, 70, 114, 101, 101, 56, 54, 45, 68, 71, 65>>,  \* "XFree86-DGA"
   version_query_func |-> "x_generic_query_version16_noparam_zero"],
  [name |-> <<88, 70, 114, 101, 101, 56, 54, 45, 68, 82, 73>>,  \* "XFree86-DRI"
   version_query_func |-> "x_generic_query_version16_noparam_zero"],
  [name |-> <<88, 70, 114, 101, 101, 56, 54, 45, 77, 105, 115, 99>>,  \* "XFree86-Misc"
   version_query_func |-> "x_generic_query_version16_noparam_zero"],
  [name |-> <<88, 70, 114, 101, 101, 56, 54, 45, 82, 117, 115, 104>>,  \* "XFree86-Rush"
   version_query_func |-> "x_generic_query_version16_noparam_zero"],
  [name |-> <<88, 70, 114, 101, 101, 56, 54, 45, 86, 105, 100, 77, 111, 100, 101, 69, 120, 116, 101, 110, 115, 105, 111, 110>>,  \* "XFree86-VidModeExtension"
   version_query_func |-> "x_generic_query_version16_noparam_zero"],
  [name |-> <<88, 73, 78, 69, 82, 65, 77, 65>>,  \* "XINERAMA"
   version_query_func |-> "x_generic_query_version8_zero"],
  [name |-> <<88, 73, 110, 112, 117, 116, 69, 120, 116, 101, 110, 115, 105, 111, 110>>,  \* "XInputExtension"
   version_query_func |-> "x_xinput_extension_query_version"],
  [name |-> <<88, 75, 69, 89, 66, 79, 65, 82, 68>>,  \* "XKEYBOARD"
   version_query_func |-> "x_generic_query_version16_zero"],
  [name |-> <<88, 112, 69, 120, 116, 101, 110, 115, 105, 111, 110>>,  \* "XpExtension"
   version_query_func |-> "x_generic_query_version16_noparam_zero"],
  [name |-> X_EXTENSION_NAME_XTEST, version_query_func |-> "x_xtest_query_version"],
  [name |-> <<88, 86, 105, 100, 101, 111>>,  \* "XVideo"
   version_query_func |-> "x_generic_query_version16_noparam_zero"],
  [name |-> <<88, 86, 105, 100, 101, 111, 45, 77, 111, 116, 105, 111, 110, 67, 111, 109, 112, 101, 110, 115, 97, 116, 105, 111, 110>>,  \* "XVideo-MotionCompensation"
   version_query_func |-> "x_generic_query_version32_noparam_zero"]>>

(***************************************************************************)
(* C strings: strlen, strcmp, and the qsort of print_x_extensions.         *)
(***************************************************************************)
\* The string a char buffer holds: its bytes before the first NUL.
RECURSIVE CString(_)
CString(buf) ==
  IF buf = <<>> \/ Head(buf) = 0 THEN <<>> ELSE <<Head(buf)>> \o CString(Tail(buf))

\* strcmp(a, b) < 0, on strings without NUL.
RECURSIVE StrLess(_, _)
StrLess(a, b) ==
  IF b = <<>> THEN FALSE
  ELSE IF a = <<>> THEN TRUE
  ELSE IF Head(a) # Head(b) THEN Head(a) < Head(b)
  ELSE StrLess(Tail(a), Tail(b))

string_comparator(lhs, rhs) == IF lhs = rhs THEN 0 ELSE IF StrLess(lhs, rhs) THEN -1 ELSE 1

RECURSIVE InsertSorted(_, _)
InsertSorted(x, s) ==
  IF s = <<>> THEN <<x>>
  ELSE IF string_comparator(x, Head(s)) <= 0 THEN <<x>> \o s
  ELSE <<Head(s)>> \o InsertSorted(x, Tail(s))

\* The names left in the order of the reply.
qsort_Unsorted(s) == s

RECURSIVE qsort(_)
qsort(s) == IF s = <<>> THEN <<>> ELSE InsertSorted(Head(s), qsort(Tail(s)))

(***************************************************************************)
(* Display names (parse_x_display_name).                                   *)
(***************************************************************************)
\* The char at offset off of a C string or of a zeroed buffer holding it:
\* NUL from the end of the string on.
CharAt(str, off) == IF off < Len(str) THEN str[off + 1] ELSE 0

\* The offset of the first char from off on that is no decimal digit.
RECURSIVE DigitsEnd(_, _)
DigitsEnd(str, off) ==
  IF CharAt(str, off) \in 48..57 THEN DigitsEnd(str, off + 1) ELSE off

\* The value of the decimal digits of str in off..(end - 1).
RECURSIVE DigitsValue(_, _, _)
DigitsValue(str, off, end) ==
  IF end <= off THEN 0 ELSE 10 * DigitsValue(str, off, end - 1) + (CharAt(str, end - 1) - 48)

\* Whether the digits in off..(end - 1), leading zeros apart, are twenty or
\* more: the number is then 10^19 at least (ULONG_MAX is
\* 18446744073709551615; the strings of the model hold no twenty-digit
\* number below it).
RECURSIVE TooLarge(_, _, _)
TooLarge(str, off, end) ==
  IF off < end /\ CharAt(str, off) = 48 THEN TooLarge(str, off + 1, end) ELSE end - off > 19

\* strtoul(str + off, &end, 10) on a string that starts with neither white
\* space nor a sign: the value of the digits and the offset where they end;
\* on overflow errno is ERANGE and the value ULONG_MAX (here -1).
strtoul(str, off) ==
  IF TooLarge(str, off, DigitsEnd(str, off))
  THEN [value |-> -1, end |-> DigitsEnd(str, off), errno |-> "ERANGE"]
  ELSE [value |-> DigitsValue(str, off, DigitsEnd(str, off)), end |-> DigitsEnd(str, off),
        errno |-> ""]

\* parse_x_display_name that takes the sequence number for the screen when
\* no screen is given.
parse_x_display_name_ScreenIsNumber(full_name) ==
  LET colon == IF \E x \in 1..Len(full_name) : full_name[x] = 58
               THEN CHOOSE x \in 1..Len(full_name) :
                      full_name[x] = 58 /\ \A y \in 1..(x - 1) : full_name[y] # 58
               ELSE Len(full_name) + 1
      hostname_len == colon - 1
      after_colon == IF colon <= Len(full_name) THEN colon ELSE Len(full_name)
      number == strtoul(full_name, after_colon)
      screen == strtoul(full_name, number.end + 1)
  IN [hostname |-> SubSeq(full_name, 1, hostname_len - 1),
      hostname_len |-> hostname_len,
      number |-> number.value,
      screen |-> IF CharAt(full_name, number.end) = 0 THEN number.value ELSE screen.value,
      error |-> IF number.errno # "" THEN "Invalid X display sequence number in display name"
                ELSE IF CharAt(full_name, number.end) # 0 /\ screen.errno # ""
                THEN "Invalid X screen number in display name"
                ELSE ""]

\* parse_x_display_name, called with a zeroed hostname and hostname_len,
\* number and screen 0.  hostname_len counts the chars before the first ':'
\* (all chars when there is none) and curr ends at after_colon.  snprintf
\* with size hostname_len stores hostname_len - 1 chars and a NUL.  error
\* is the message of the die the call ends in, "" when it returns.
parse_x_display_name(full_name) ==
  LET colon == IF \E x \in 1..Len(full_name) : full_name[x] = 58
               THEN CHOOSE x \in 1..Len(full_name) :
                      full_name[x] = 58 /\ \A y \in 1..(x - 1) : full_name[y] # 58
               ELSE Len(full_name) + 1
      hostname_len == colon - 1
      after_colon == IF colon <= Len(full_name) THEN colon ELSE Len(full_name)
      number == strtoul(full_name, after_colon)
      screen == strtoul(full_name, number.end + 1)
  IN [hostname |-> SubSeq(full_name, 1, hostname_len - 1),
      hostname_len |-> hostname_len,
      number |-> number.value,
      screen |-> IF CharAt(full_name, number.end) = 0 THEN 0 ELSE screen.value,
      error |-> IF number.errno # "" THEN "Invalid X display sequence number in display name"
                ELSE IF CharAt(full_name, number.end) # 0 /\ screen.errno # ""
                THEN "Invalid X screen number in display name"
                ELSE ""]

\* get_socket_for_display: hostname_len == 0, or the five chars of the
\* hostname buffer before offset hostname_len are "/unix".
is_unix_connection(hostname, hostname_len) ==
  \/ hostname_len = 0
  \/ /\ hostname_len > 5
     /\ CharAt(hostname, hostname_len - 5) = 47 /\ CharAt(hostname, hostname_len - 4) = 117
     /\ CharAt(hostname, hostname_len - 3) = 110 /\ CharAt(hostname, hostname_len - 2) = 105
     /\ CharAt(hostname, hostname_len - 1) = 120

(***************************************************************************)
(* The Xauthority file (readu16be, read_counted_string and the loop of     *)
(* x_connect_to_display).  pos is the position of the stream; a read that  *)
(* finds fewer bytes than it asks for takes them all and fails.            *)
(***************************************************************************)
\* readu16be that leaves the position where it was when the file ends
\* before the two bytes.
readu16be_KeepsPosition(file, pos) ==
  IF pos + 2 <= Len(file)
  THEN [ok |-> TRUE, result |-> file[pos + 1] * 256 + file[pos + 2], pos |-> pos + 2]
  ELSE [ok |-> FALSE, result |-> 0, pos |-> pos]

readu16be(file, pos) ==
  IF pos + 2 <= Len(file)
  THEN [ok |-> TRUE, result |-> file[pos + 1] * 256 + file[pos + 2], pos |-> pos + 2]
  ELSE [ok |-> FALSE, result |-> 0, pos |-> Len(file)]

\* The test length == 0 compares the pointer and never holds: a string of
\* length 0 is read as any other.  The buffer has length + 1 bytes.
read_counted_string(file, pos) ==
  LET length == readu16be(file, pos) IN
    IF ~length.ok THEN [ok |-> FALSE, length |-> 0, string |-> Null, pos |-> length.pos]
    ELSE IF length.pos + length.result <= Len(file)
    THEN [ok |-> TRUE, length |-> length.result,
          string |-> Calloc(SubSeq(file, length.pos + 1, length.pos + length.result) \o <<0>>),
          pos |-> length.pos + length.result]
    ELSE [ok |-> FALSE, length |-> length.result, string |-> Null, pos |-> Len(file)]

NoAuthFound ==
  [auth_protocol_name_len |-> 0, auth_protocol_name |-> Null,
   auth_data_len |-> 0, auth_data |-> Null]

\* One iteration of the loop of x_connect_to_display from position pos:
\* the five reads, none made after one that failed; ok when all five
\* succeeded, pos the position the iteration leaves the stream at.
ScanIteration(file, pos) ==
  LET family == readu16be(file, pos)
      xauth_hostname == read_counted_string(file, family.pos)
      xauth_number == read_counted_string(file, xauth_hostname.pos)
      xauth_protocol_name == read_counted_string(file, xauth_number.pos)
      xauth_data == read_counted_string(file, xauth_protocol_name.pos)
  IN IF ~family.ok THEN [ok |-> FALSE, pos |-> family.pos]
     ELSE IF ~xauth_hostname.ok THEN [ok |-> FALSE, pos |-> xauth_hostname.pos]
     ELSE IF ~xauth_number.ok THEN [ok |-> FALSE, pos |-> xauth_number.pos]
     ELSE IF ~xauth_protocol_name.ok THEN [ok |-> FALSE, pos |-> xauth_protocol_name.pos]
     ELSE [ok |-> xauth_data.ok, pos |-> xauth_data.pos]

\* The loop of x_connect_to_display from position pos on: each entry read
\* in full whose number and hostname match replaces what was found before.
\* An entry that cannot be read in full leaves the position at the end of
\* the file, which ends the loop.
RECURSIVE ScanXauthority(_, _, _, _, _)
ScanXauthority(file, pos, hostname, number, found) ==
  IF pos = Len(file) THEN found
  ELSE
    LET family == readu16be(file, pos)
        xauth_hostname == read_counted_string(file, family.pos)
        xauth_number == read_counted_string(file, xauth_hostname.pos)
        xauth_protocol_name == read_counted_string(file, xauth_number.pos)
        xauth_data == read_counted_string(file, xauth_protocol_name.pos)
        ok == /\ family.ok /\ xauth_hostname.ok /\ xauth_number.ok
              /\ xauth_protocol_name.ok /\ xauth_data.ok
    IN IF ~ok THEN found
       ELSE ScanXauthority(file, xauth_data.pos, hostname, number,
              IF /\ strtoul(CString(xauth_number.string.mem), 0).value = number
                 /\ CString(hostname) = CString(xauth_hostname.string.mem)
              THEN [auth_protocol_name_len |-> xauth_protocol_name.length,
                    auth_protocol_name |-> xauth_protocol_name.string,
                    auth_data_len |-> xauth_data.length,
                    auth_data |-> xauth_data.string]
              ELSE found)

(***************************************************************************)
(* Requests after the handshake.                                           *)
(***************************************************************************)
\* The request with the padded length of the name in its length field.
QueryExtensionRequest_PaddedLength(name) ==
  <<X_OPCODE_QUERY_EXTENSION, 0>> \o LE16(2 + (X_PAD(Len(name)) \div 4))
    \o LE16(X_PAD(Len(name))) \o <<0, 0>>
    \o name \o Zeros(X_PAD(Len(name)) - Len(name))

QueryExtensionRequest(name) ==
  <<X_OPCODE_QUERY_EXTENSION, 0>> \o LE16(2 + (X_PAD(Len(name)) \div 4))
    \o LE16(Len(name)) \o <<0, 0>>
    \o name \o Zeros(X_PAD(Len(name)) - Len(name))

BigRequestsEnableRequest(big_requests_opcode) ==
  <<big_requests_opcode % 256, X_OPCODE_BIG_REQUESTS_ENABLE>> \o LE16(1)

GetFontPathRequest == <<X_OPCODE_GET_FONT_PATH, 0>> \o LE16(1)

ListExtensionsRequest == <<X_OPCODE_LIST_EXTENSIONS, 0>> \o LE16(1)

\* Fields of the replies, each 32 bytes.
reply_status(r) == U8(r, 0)

\* The length of the additional data read where num_strings is.
reply_data_len_AtEight(r) == U32(r, 8)

reply_data_len(r) == U32(r, 4)

query_extension_present(r) == U8(r, 8)

query_extension_major_opcode(r) == U8(r, 9)

big_requests_max_request_len(r) == U32(r, 8)

font_path_num_strings(r) == U16(r, 8)

list_extensions_num_names(r) == U8(r, 1)

(***************************************************************************)
(* The version dialects: the request a version query function writes and   *)
(* the fields it takes from the reply.                                     *)
(***************************************************************************)
\* The request with its length counted in bytes.
generic_query_version8_request_LenInBytes(op, extension_opcode) ==
  <<op % 256, extension_opcode>> \o LE16(8) \o <<255, 255, 0, 0>>

generic_query_version8_request(op, extension_opcode) ==
  <<op % 256, extension_opcode>> \o LE16(2) \o <<255, 255, 0, 0>>

generic_query_version16_request(op, extension_opcode) ==
  <<op % 256, extension_opcode>> \o LE16(2) \o <<255, 255, 255, 255>>

generic_query_version32_request(op, extension_opcode) ==
  <<op % 256, extension_opcode>> \o LE16(3) \o <<255, 255, 255, 255, 255, 255, 255, 255>>

generic_query_version_noparam_request(op, extension_opcode) ==
  <<op % 256, extension_opcode>> \o LE16(1)

xtest_query_version_request(op) ==
  <<op % 256, X_OPCODE_XTEST_QUERY_VERSION>> \o LE16(2) \o <<255, 0, 255, 255>>

\* The functions that answer without a request, and the table without an
\* entry for the name.
LocalVersion(func) ==
  IF func = "x_big_request_query_version"
  THEN [ok |-> TRUE, major |-> 2, minor |-> 0]
  ELSE [ok |-> FALSE, major |-> 0, minor |-> 0]

VersionRequest(func, op) ==
  CASE func = "x_generic_query_version8_zero" -> generic_query_version8_request(op, 0)
    [] func = "x_generic_query_version16_zero" -> generic_query_version16_request(op, 0)
    [] func = "x_generic_query_version32_zero" -> generic_query_version32_request(op, 0)
    [] func = "x_generic_query_version16_noparam_zero" ->
         generic_query_version_noparam_request(op, 0)
    [] func = "x_generic_query_version32_noparam_zero" ->
         generic_query_version_noparam_request(op, 0)
    [] func = "x_glx_query_version" ->
         generic_query_version32_request(op, X_OPCODE_GLX_QUERY_VERSION)
    [] func = "x_xinput_extension_query_version" ->
         generic_query_version16_request(op, X_OPCODE_XINPUT_EXTENSION_QUERY_VERSION)
    [] func = "x_mit_screen_saver_query_version" ->
         generic_query_version8_request(op, X_OPCODE_MIT_SCREEN_SAVER_QUERY_VERSION)
    [] func = "x_selinux_query_version" ->
         generic_query_version8_request(op, X_OPCODE_SELINUX_QUERY_VERSION)
    [] func = "x_xtest_query_version" -> xtest_query_version_request(op)

\* The layout of the reply a function reads: 8, 16 or 32-bit fields, or
\* the XTEST layout.
ReplyLayout(func) ==
  CASE func \in {"x_generic_query_version8_zero"} -> "v8"
    [] func \in {"x_generic_query_version16_zero", "x_generic_query_version16_noparam_zero",
                 "x_xinput_extension_query_version", "x_mit_screen_saver_query_version",
                 "x_selinux_query_version"} -> "v16"
    [] func \in {"x_generic_query_version32_zero", "x_generic_query_version32_noparam_zero",
                 "x_glx_query_version"} -> "v32"
    [] func = "x_xtest_query_version" -> "xtest"

\* Every reply read as one with 16-bit fields.
VersionFromReply_SixteenBit(func, r) ==
  [ok |-> TRUE, major |-> U16(r, 8), minor |-> U16(r, 10)]

VersionFromReply(func, r) ==
  CASE ReplyLayout(func) = "v8" -> [ok |-> TRUE, major |-> U8(r, 8), minor |-> U8(r, 9)]
    [] ReplyLayout(func) = "v16" -> [ok |-> TRUE, major |-> U16(r, 8), minor |-> U16(r, 10)]
    [] ReplyLayout(func) = "v32" -> [ok |-> TRUE, major |-> U32(r, 8), minor |-> U32(r, 12)]
    [] ReplyLayout(func) = "xtest" -> [ok |-> TRUE, major |-> U8(r, 1), minor |-> U16(r, 8)]

\* What a version query function reports after its read_n returned
\* num_read with the reply r.
VersionQueryResult(func, num_read, r) ==
  IF num_read # SizeofReply \/ reply_status(r) # X_REPLY
  THEN [ok |-> FALSE, major |-> 0, minor |-> 0]
  ELSE VersionFromReply(func, r)

\* The functions that write no request.
LocalFuncs == {"x_big_request_query_version", "x_invalid_query_version"}

\* x_get_extension_version: the function of the first entry whose name is
\* the argument; "none" when the table has no such entry.
\* The lookup that ends on the function of the first entry.
RECURSIVE LookupFrom_Fallback(_, _)
LookupFrom_Fallback(name, idx) ==
  IF idx > Len(x_extensions) THEN x_extensions[1].version_query_func
  ELSE IF x_extensions[idx].name = name THEN x_extensions[idx].version_query_func
  ELSE LookupFrom_Fallback(name, idx + 1)

RECURSIVE LookupFrom(_, _)
LookupFrom(name, idx) ==
  IF idx > Len(x_extensions) THEN "none"
  ELSE IF x_extensions[idx].name = name THEN x_extensions[idx].version_query_func
  ELSE LookupFrom(name, idx + 1)

x_get_extension_version(name) == LookupFrom(name, 1)


(***************************************************************************)
(* Control points.  A call of write_n or read_n is made at a site; when    *)
(* the call returns, the run continues at AfterPc(site).                   *)
(***************************************************************************)
WritePcs == {"hs_write", "qe_write", "br_write", "fp_write", "le_write", "vq_write"}

ReadNPcs == {"hs_read_hdr", "hs_read_data", "qe_read", "br_read", "fp_read", "le_read", "vq_read"}

\* The sites that call read() once, without read_n.
ReadOncePcs == {"fp_read_data", "le_read_data"}

AfterPc(site) ==
  CASE site = "hs_write" -> "hs_written"
    [] site = "hs_read_hdr" -> "hs_hdr_ret"
    [] site = "hs_read_data" -> "hs_data_ret"
    [] site = "qe_write" -> "qe_written"
    [] site = "qe_read" -> "qe_read_ret"
    [] site = "br_write" -> "br_written"
    [] site = "br_read" -> "br_read_ret"
    [] site = "fp_write" -> "fp_written"
    [] site = "fp_read" -> "fp_read_ret"
    [] site = "fp_read_data" -> "fp_data_ret"
    [] site = "le_write" -> "le_written"
    [] site = "le_read" -> "le_read_ret"
    [] site = "le_read_data" -> "le_data_ret"
    [] site = "vq_write" -> "vq_written"
    [] site = "vq_read" -> "vq_read_ret"

\* The lists of extensions a server that answers each request on its own
\* may send: none, two out of order (one of them the alias of GLX), one
\* the table does not know ("Z").
ServerExtensionLists ==
  {<<>>, <<X_EXTENSION_NAME_XTEST>>, <<X_EXTENSION_NAME_NV_GLX, X_EXTENSION_NAME_BIG_REQUESTS>>,
   <<(<<90>>)>>}

ListExtensionsAnswers ==
  UNION {{Sends(ListExtensionsReply(l, w)) : w \in {Len(PadTo4(EncStrings(l))) \div 4, 0}} :
           l \in ServerExtensionLists}
    \cup {Sends(ErrorReply), Hangup}

\* The first entry of the version table for each version query function.
FirstOfDialect ==
  {x \in 1..Len(x_extensions) :
     \A y \in 1..(x - 1) :
       x_extensions[y].version_query_func # x_extensions[x].version_query_func}

\* The lists a consistent server may hold: none, one extension of each
\* version query function, "Z", and NV-GLX with GLX or with BIG-REQUESTS.
ConsistentExtensionLists ==
  {<<>>, <<(<<90>>)>>, <<X_EXTENSION_NAME_NV_GLX, X_EXTENSION_NAME_GLX>>,
   <<X_EXTENSION_NAME_NV_GLX, X_EXTENSION_NAME_BIG_REQUESTS>>}
    \cup {<<x_extensions[x].name>> : x \in FirstOfDialect}

Answer(a, ext) == [bytes |-> a.bytes, closed |-> a.closed, ext |-> ext]

\* The name a QueryExtension request asks for: the bytes that follow its
\* 8-byte header, as many as its length field says.
RequestedName(request) == SubSeq(request, 9, 8 + U16(request, 4))

\* The answers to QueryExtension for a name.  Before the list was sent the
\* only name asked for is BIG-REQUESTS.
QueryExtensionAnswersFor(name) ==
  CASE srv_ext.mode = "undecided" ->
         {Answer(ConsistentQueryExtensionAnswer(b, name), Asked(b)) : b \in BOOLEAN}
           \cup {Answer(a, AnyServer) : a \in {Sends(ErrorReply), Hangup}}
    [] srv_ext.mode = "listed" ->
         {Answer(ConsistentQueryExtensionAnswer(Holds(srv_ext.names, name), name), srv_ext)}
    [] OTHER -> {Answer(a, AnyServer) : a \in QueryExtensionAnswers}

ConsistentListExtensionsAnswers(lists) ==
  {Answer(Sends(ListExtensionsReply(l, Len(PadTo4(EncStrings(l))) \div 4)),
          Listed(l, srv_ext.big)) :
     l \in lists}

\* The answers to ListExtensions: a server that was asked about
\* BIG-REQUESTS and goes on consistently sends a list that agrees with its
\* answer.
ListExtensionsAnswersNow ==
  {Answer(a, AnyServer) : a \in ListExtensionsAnswers}
    \cup IF srv_ext.mode = "asked"
         THEN ConsistentListExtensionsAnswers(
                {l \in ConsistentExtensionLists :
                   Holds(l, X_EXTENSION_NAME_BIG_REQUESTS) = srv_ext.big})
         ELSE {}

\* What the server sends once the request written at a site has arrived,
\* and what its answer settles; a server that hung up sends nothing more.
ServerAnswers(site, request) ==
  IF srv_closed THEN {Answer(Sends(<<>>), srv_ext)}
  ELSE CASE site = "hs_write" -> {Answer(srv, srv_ext)}
         [] site = "qe_write" -> QueryExtensionAnswersFor(RequestedName(request))
         [] site = "br_write" -> {Answer(a, srv_ext) : a \in BigRequestsAnswers}
         [] site = "fp_write" -> {Answer(a, srv_ext) : a \in FontPathAnswers}
         [] site = "le_write" -> ListExtensionsAnswersNow
         [] site = "vq_write" ->
              {Answer(a, srv_ext) :
                 a \in VersionAnswers(ReplyLayout(x_get_extension_version(qname)))}

(***************************************************************************)
(* x_connect and x_connect_to_display up to the call of                    *)
(* x_connect_to_display_with_auth_data: the display name is parsed, the    *)
(* Xauthority file is searched for the host and the display number, and    *)
(* the run dies when no entry was kept.                                    *)
(***************************************************************************)
\* The test !auth_data that never holds.
NoAuthData_Never(found) == FALSE

\* The test !auth_data after the loop.
NoAuthData(found) == found.auth_data.null

x_connect ==
  /\ pc = "start"
  /\ LET display_name == IF env.display.set THEN env.display.name ELSE <<58, 48>>
         parsed == parse_x_display_name(display_name)
         hostname == IF parsed.hostname_len = 0 THEN env.localhost ELSE parsed.hostname
         file == XauthorityBytes(env.xauthority)
         found == ScanXauthority(file, 0, hostname, parsed.number, NoAuthFound)
     IN IF parsed.error # ""
        THEN die(parsed.error) /\ UNCHANGED <<target, auth, auth_data>>
        ELSE /\ target' = [hostname |-> parsed.hostname, hostname_len |-> parsed.hostname_len,
                            number |-> parsed.number, screen |-> parsed.screen]
             /\ IF ~env.xauthority.readable
                THEN die("Failed to open Xauthority file") /\ UNCHANGED <<auth, auth_data>>
                ELSE \E allocated \in BOOLEAN :
                       IF ~allocated /\ Len(file) >= 4
                       THEN die("Memory allocation failed") /\ UNCHANGED <<auth, auth_data>>
                       ELSE IF NoAuthData(found)
                       THEN /\ die("No X authentication data for the specified display")
                            /\ UNCHANGED <<auth, auth_data>>
                       ELSE /\ auth' = [name |-> SubSeq(found.auth_protocol_name.mem, 1,
                                                         found.auth_protocol_name_len),
                                         data |-> SubSeq(found.auth_data.mem, 1,
                                                         found.auth_data_len)]
                            /\ auth_data' = found.auth_data
                            /\ pc' = "get_socket"
                            /\ UNCHANGED exitVars
  /\ UNCHANGED <<connVars, env, transport, info, current_info, sock, net, request_buffer, freed,
                 sent, srvVars, ioVars, decVars, setup, extVars>>

(***************************************************************************)
(* get_socket_for_display.  net records the calls made on sockets: op is   *)
(* "getaddrinfo", "socket", "connect" or "close", cand the address         *)
(* candidate the socket is for (0 for the UNIX domain socket), ok whether  *)
(* the call succeeded.                                                     *)
(***************************************************************************)
Event(op, cand, ok) == [op |-> op, cand |-> cand, ok |-> ok]

\* The UNIX domain socket left open when connect fails.
UnixAttempt_NoClose(created, connected) ==
  IF ~created THEN <<Event("socket", 0, FALSE)>>
  ELSE <<Event("socket", 0, TRUE), Event("connect", 0, connected)>>

\* The calls for the UNIX domain socket: socket, connect, and close when
\* connect failed.
UnixAttempt(created, connected) ==
  IF ~created THEN <<Event("socket", 0, FALSE)>>
  ELSE IF connected THEN <<Event("socket", 0, TRUE), Event("connect", 0, TRUE)>>
  ELSE <<Event("socket", 0, TRUE), Event("connect", 0, FALSE), Event("close", 0, TRUE)>>

\* The socket of a candidate left open when connect fails.
CandidateAttempt_NoClose(cand, created, connected) ==
  IF ~created THEN <<Event("socket", cand, FALSE)>>
  ELSE <<Event("socket", cand, TRUE), Event("connect", cand, connected)>>

\* The calls of one iteration of the loop over the address candidates.
CandidateAttempt(cand, created, connected) ==
  IF ~created THEN <<Event("socket", cand, FALSE)>>
  ELSE IF connected THEN <<Event("socket", cand, TRUE), Event("connect", cand, TRUE)>>
  ELSE <<Event("socket", cand, TRUE), Event("connect", cand, FALSE), Event("close", cand, TRUE)>>

\* The function returns a connected socket: descriptor 3, the lowest one
\* that is free.
ReturnSocket ==
  /\ sock' = 3 /\ opens' = opens + 1 /\ fd_open' = TRUE
  /\ pc' = "connect_to_socket"
  /\ UNCHANGED <<fd, closes, released, exitVars>>

\* The function up to the loop over the address candidates: the display
\* name is parsed again; the UNIX domain socket is created and connected,
\* or the host name is resolved to 1..MaxCandidates candidates.
get_socket_for_display ==
  /\ pc = "get_socket"
  /\ LET display_name == IF env.display.set THEN env.display.name ELSE <<58, 48>>
         parsed == parse_x_display_name(display_name)
     IN IF parsed.error # ""
        THEN /\ die(parsed.error)
             /\ UNCHANGED <<connVars, target, transport, info, current_info, sock, net>>
        ELSE /\ target' = [hostname |-> parsed.hostname, hostname_len |-> parsed.hostname_len,
                            number |-> parsed.number, screen |-> parsed.screen]
             /\ IF is_unix_connection(parsed.hostname, parsed.hostname_len)
                THEN /\ transport' = "unix"
                     /\ \E created, connected \in BOOLEAN :
                          /\ net' = net \o UnixAttempt(created, connected)
                          /\ IF created /\ connected
                             THEN ReturnSocket
                             ELSE /\ sock' = IF created THEN 3 ELSE NoFd
                                  /\ die(IF created THEN "Failed to connect to X server"
                                         ELSE "Failed to create UNIX domain socket")
                                  /\ UNCHANGED connVars
                     /\ UNCHANGED <<info, current_info>>
                ELSE /\ transport' = "tcp"
                     /\ \E n \in 0..MaxCandidates :
                          /\ net' = net \o <<Event("getaddrinfo", 0, n > 0)>>
                          /\ IF n = 0
                             THEN /\ die("Failed to resolve X server host name")
                                  /\ UNCHANGED <<info, current_info>>
                             ELSE /\ info' = n /\ current_info' = 1
                                  /\ pc' = "tcp_loop"
                                  /\ UNCHANGED exitVars
                     /\ UNCHANGED <<connVars, sock>>
  /\ UNCHANGED <<env, auth, auth_data, request_buffer, freed, sent, srvVars, ioVars, decVars,
                 setup, extVars>>

\* One iteration of the loop: socket failed (continue), connect succeeded
\* (break, freeaddrinfo, return fd), or connect failed (close, next).
TcpCandidate ==
  /\ pc = "tcp_loop" /\ current_info <= info
  /\ \E created, connected \in BOOLEAN :
       /\ net' = net \o CandidateAttempt(current_info, created, connected)
       /\ IF created /\ connected
          THEN ReturnSocket /\ UNCHANGED current_info
          ELSE /\ sock' = IF created THEN 3 ELSE NoFd
               /\ current_info' = current_info + 1
               /\ UNCHANGED <<pc, connVars, exitVars>>
  /\ UNCHANGED <<env, target, transport, info, auth, auth_data, request_buffer, freed, sent,
                 srvVars, ioVars, decVars, setup, extVars>>

\* The loop ended with current_info == 0: freeaddrinfo, die.
TcpExhausted ==
  /\ pc = "tcp_loop" /\ current_info > info
  /\ die("Failed to connect to X server")
  /\ UNCHANGED <<connVars, authVars, srvVars, ioVars, decVars, setup, extVars>>

Connect == x_connect \/ get_socket_for_display \/ TcpCandidate \/ TcpExhausted

(***************************************************************************)
(* x_connect_to_socket up to its write_n: the descriptor is recorded and   *)
(* the request buffer is allocated and filled.                             *)
(***************************************************************************)
x_connect_to_socket ==
  /\ pc = "connect_to_socket"
  /\ \E allocated \in BOOLEAN :
       IF allocated
       THEN /\ fd' = sock
            /\ request_buffer' = Calloc(SetupRequest(auth.name, auth.data))
            /\ io' = Call("hs_write", SetupRequest(auth.name, auth.data),
                          SizeofSetupRequest + X_PAD(Len(auth.name)) + X_PAD(Len(auth.data)))
            /\ wire' = <<>>
            /\ pc' = "hs_write"
            /\ UNCHANGED <<opens, fd_open, closes, released, exitVars, sys, ret, awaiting>>
       ELSE \* x_connection.fd = fd; x_disconnect(); die(...)
            /\ fd' = NoFd /\ fd_open' = FALSE
            /\ closes' = closes + 1
            /\ released' = TRUE
            /\ die("Memory allocation failed")
            /\ UNCHANGED <<opens, request_buffer, ioVars>>
  /\ UNCHANGED <<auth, auth_data, lookupVars, freed, sent, srvVars, decVars, setup, extVars>>

(***************************************************************************)
(* One write() of a running write_n call.                                  *)
(***************************************************************************)
WriteN ==
  /\ pc \in WritePcs
  /\ \E o \in WriteOutcomes(io) :
       LET r == write_n_iter(Transferred(io, o, io.n - io.total), o) IN
         /\ io' = r.c
         /\ sys' = IF o.kind = "n" THEN [NoSys EXCEPT !.op = "write", !.res = "n"]
                    ELSE [op |-> "write", off |-> io.off, len |-> io.n - io.total, res |-> o.kind]
         /\ wire' = IF o.kind = "n" THEN wire \o SubSeq(io.buf, io.off + 1, io.off + o.k) ELSE wire
         /\ IF r.done
            THEN /\ pc' = AfterPc(pc)
                 /\ ret' = r.ret
                 /\ IF r.ret = io.n
                    THEN /\ awaiting' = TRUE
                         /\ \E a \in ServerAnswers(pc, wire') :
                              /\ inbuf' = inbuf \o a.bytes
                              /\ srv_closed' = (srv_closed \/ a.closed)
                              /\ srv_ext' = a.ext
                    ELSE UNCHANGED <<awaiting, inbuf, srv_closed, srv_ext>>
            ELSE UNCHANGED <<pc, ret, awaiting, inbuf, srv_closed, srv_ext>>
         /\ broken' = (broken \/ o.kind = "err")
         /\ sent' = IF pc = "hs_write" THEN sent + o.k ELSE sent
  /\ UNCHANGED <<connVars, exitVars, auth, auth_data, lookupVars, request_buffer, freed, srv,
                 decVars, setup, extVars>>

(***************************************************************************)
(* One read() of a running read_n call; a call for 0 bytes returns 0       *)
(* without a system call.                                                  *)
(***************************************************************************)
ReadN ==
  /\ pc \in ReadNPcs
  /\ IF io.n = 0
     THEN /\ pc' = AfterPc(pc) /\ ret' = 0
          /\ UNCHANGED <<io, sys, wire, awaiting, inbuf, broken>>
     ELSE \E o \in ReadOutcomes(io.n - io.total, io.eintr, io.short) :
            LET r == read_n_iter(Transferred(io, o, io.n - io.total), o, SubSeq(inbuf, 1, o.k)) IN
              /\ io' = r.c
              /\ sys' = IF o.kind = "n" THEN [NoSys EXCEPT !.op = "read", !.res = "n"]
                         ELSE [op |-> "read", off |-> io.off, len |-> io.n - io.total,
                               res |-> o.kind]
              /\ inbuf' = SubSeq(inbuf, o.k + 1, Len(inbuf))
              /\ wire' = wire \o SubSeq(inbuf, 1, o.k)
              /\ awaiting' = FALSE
              /\ broken' = (broken \/ o.kind = "err")
              /\ IF r.done
                 THEN pc' = AfterPc(pc) /\ ret' = r.ret
                 ELSE UNCHANGED <<pc, ret>>
  /\ UNCHANGED <<connVars, exitVars, authVars, srv, srv_closed, srv_ext, decVars, setup, extVars>>

(***************************************************************************)
(* x_connect_to_socket after the request was written: free the request     *)
(* buffer, die on a short count, else read the response header.            *)
(***************************************************************************)
HsWritten ==
  /\ pc = "hs_written"
  /\ freed' = freed \cup {[buffer |-> "request_buffer", mem |-> request_buffer.mem]}
  /\ request_buffer' = Null
  /\ IF ret # io.n
     THEN /\ die("Failed to send connection request to X server")
          /\ UNCHANGED <<connVars, ioVars>>
     ELSE /\ io' = Call("hs_read_hdr", Zeros(SizeofSetupResponse), SizeofSetupResponse)
          /\ pc' = "hs_read_hdr"
          /\ sys' = NoSys /\ wire' = <<>>
          /\ UNCHANGED <<connVars, exitVars, ret, awaiting>>
  /\ UNCHANGED <<auth, auth_data, lookupVars, sent, srvVars, decVars, setup, extVars>>

\* The length of the additional data taken for a count of bytes.
additional_data_len_Bytes(r) == resp_additional_data_len(r)

\* size_t additional_data_len = 4 * response.additional_data_len
additional_data_len(r) == 4 * resp_additional_data_len(r)

\* After the header: die on a short count, else allocate and read the
\* additional data.
HsHeader ==
  /\ pc = "hs_hdr_ret"
  /\ IF ret # SizeofSetupResponse
     THEN /\ x_disconnect
          /\ die("Failed to read connection setup response from X server")
          /\ UNCHANGED <<ioVars, decVars>>
     ELSE \E allocated \in BOOLEAN :
            /\ response' = io.buf
            /\ IF allocated
               THEN /\ additional_data' = Calloc(Zeros(additional_data_len(io.buf)))
                    /\ io' = Call("hs_read_data", Zeros(additional_data_len(io.buf)),
                                  additional_data_len(io.buf))
                    /\ pc' = "hs_read_data"
                    /\ sys' = NoSys /\ wire' = <<>>
                    /\ UNCHANGED <<connVars, exitVars, ret, awaiting>>
               ELSE /\ die("Memory allocation failed")
                    /\ UNCHANGED <<connVars, ioVars, additional_data>>
            /\ UNCHANGED <<curr, i, j, k, garbage, oob>>
  /\ UNCHANGED <<authVars, srvVars, setup, extVars>>

\* The bytes fprintf("%s") reads from a buffer: up to the first NUL, and
\* past the end of the buffer when it holds none.
HasNul(buf) == \E x \in 1..Len(buf) : buf[x] = 0

\* After the additional data: die on a short count or on a refusal, else
\* record the protocol version and start decoding.
HsData ==
  /\ pc = "hs_data_ret"
  /\ IF ret # io.n
     THEN /\ x_disconnect
          /\ die("Failed to read additional connection information from X server")
          /\ additional_data' = Null
          /\ UNCHANGED <<ioVars, response, curr, i, j, k, garbage, oob, setup>>
     ELSE IF resp_status(response) # X_CONNECTION_STATUS_SUCCESS
     THEN /\ x_disconnect
          /\ die("Connection to X server failed")
          /\ additional_data' = Null
          /\ oob' = IF HasNul(io.buf) THEN oob ELSE oob \cup {"reason"}
          /\ UNCHANGED <<ioVars, response, curr, i, j, k, garbage, setup>>
     ELSE /\ setup' = [setup EXCEPT !.version_major = resp_version_major(response),
                                    !.version_minor = resp_version_minor(response)]
          /\ additional_data' = Calloc(io.buf)
          /\ curr' = 0
          /\ pc' = "dec_header"
          /\ io' = NoCall /\ sys' = NoSys /\ wire' = <<>>
          /\ UNCHANGED <<connVars, exitVars, ret, awaiting, response, i, j, k, garbage, oob>>
  /\ UNCHANGED <<authVars, srvVars, extVars>>


(***************************************************************************)
(* The decoder of x_connect_to_socket.  Each step copies one struct from   *)
(* additional_data at curr_data and advances curr_data by its size; no     *)
(* step compares curr_data with the length of the buffer.                  *)
(***************************************************************************)
DecodePcs == {"dec_header", "dec_vendor", "dec_formats", "dec_screens", "dec_depths", "dec_visuals"}

\* The decoder advancing by the padded length of the vendor name.
NextReadSize_PaddedVendor ==
  CASE pc = "dec_header" -> SizeofSetupDataImpl
    [] pc = "dec_vendor" -> X_PAD(vendor_length(setup.data))
    [] pc = "dec_formats" -> IF i < num_pixmap_formats(setup.data) THEN SizeofFormat ELSE 0
    [] pc = "dec_screens" -> IF i < num_roots(setup.data) THEN SizeofScreenData ELSE 0
    [] pc = "dec_depths" ->
         IF j < num_allowed_depths(setup.roots.mem[i + 1].data) THEN SizeofDepthData ELSE 0
    [] pc = "dec_visuals" ->
         IF k < num_visuals(setup.roots.mem[i + 1].allowed_depths.mem[j + 1].data)
         THEN SizeofVisualType ELSE 0
    [] OTHER -> 0

\* The size of the memcpy the decoder performs next (0: none).
NextReadSize ==
  CASE pc = "dec_header" -> SizeofSetupDataImpl
    [] pc = "dec_vendor" -> vendor_length(setup.data)
    [] pc = "dec_formats" -> IF i < num_pixmap_formats(setup.data) THEN SizeofFormat ELSE 0
    [] pc = "dec_screens" -> IF i < num_roots(setup.data) THEN SizeofScreenData ELSE 0
    [] pc = "dec_depths" ->
         IF j < num_allowed_depths(setup.roots.mem[i + 1].data) THEN SizeofDepthData ELSE 0
    [] pc = "dec_visuals" ->
         IF k < num_visuals(setup.roots.mem[i + 1].allowed_depths.mem[j + 1].data)
         THEN SizeofVisualType ELSE 0
    [] OTHER -> 0

PastEnd == ReadsPastEnd(additional_data.mem, curr, NextReadSize)

Garbage == IF garbage = -1 THEN GarbageBytes ELSE {garbage}

\* The struct the next memcpy fills.
Copied(g) == MemcpyFrom(additional_data.mem, curr, NextReadSize, g)

MarkRead(g) ==
  /\ garbage' = IF PastEnd THEN g ELSE garbage
  /\ oob' = IF PastEnd THEN oob \cup {"decode"} ELSE oob

\* free(additional_data); x_disconnect(); die("Memory allocation failed")
DecodeAllocFailed ==
  /\ additional_data' = Null
  /\ x_disconnect
  /\ die("Memory allocation failed")

DecodeGoes(next) ==
  /\ pc' = next
  /\ UNCHANGED <<connVars, exitVars, additional_data>>

DecHeader ==
  /\ pc = "dec_header"
  /\ \E g \in Garbage, allocated \in BOOLEAN :
       /\ MarkRead(g)
       /\ curr' = curr + NextReadSize
       /\ setup' = [setup EXCEPT !.data = Copied(g),
                                 !.vendor_name = IF allocated
                                                 THEN Calloc(Zeros(vendor_length(Copied(g)) + 1))
                                                 ELSE Null]
       /\ IF allocated THEN DecodeGoes("dec_vendor") ELSE DecodeAllocFailed
  /\ UNCHANGED <<authVars, srvVars, ioVars, response, i, j, k, extVars>>

DecVendor ==
  /\ pc = "dec_vendor"
  /\ \E g \in Garbage, allocated \in BOOLEAN :
       /\ MarkRead(g)
       /\ curr' = curr + NextReadSize
       /\ setup' = [setup EXCEPT !.vendor_name = Calloc(Copied(g) \o <<0>>),
                                 !.pixmap_formats =
                                    IF allocated
                                    THEN calloc(num_pixmap_formats(setup.data), Zeros(SizeofFormat))
                                    ELSE Null]
       /\ i' = 0
       /\ IF allocated THEN DecodeGoes("dec_formats") ELSE DecodeAllocFailed
  /\ UNCHANGED <<authVars, srvVars, ioVars, response, j, k, extVars>>

DecFormats ==
  /\ pc = "dec_formats"
  /\ IF i < num_pixmap_formats(setup.data)
     THEN \E g \in Garbage :
            /\ MarkRead(g)
            /\ setup' = [setup EXCEPT !.pixmap_formats.mem[i + 1] = Copied(g)]
            /\ curr' = curr + NextReadSize
            /\ i' = i + 1
            /\ DecodeGoes("dec_formats")
     ELSE \E allocated \in BOOLEAN :
            /\ setup' = [setup EXCEPT !.roots =
                           IF allocated
                           THEN calloc(num_roots(setup.data),
                                       [data |-> Zeros(SizeofScreenData),
                                        allowed_depths |-> Null])
                           ELSE Null]
            /\ i' = 0
            /\ IF allocated THEN DecodeGoes("dec_screens") ELSE DecodeAllocFailed
            /\ UNCHANGED <<curr, garbage, oob>>
  /\ UNCHANGED <<authVars, srvVars, ioVars, response, j, k, extVars>>

\* The loop over the screens; when it ends, free(additional_data) and
\* return to x_connect_to_display, which frees the credential.
DecScreens ==
  /\ pc = "dec_screens"
  /\ IF i < num_roots(setup.data)
     THEN \E g \in Garbage, allocated \in BOOLEAN :
            /\ MarkRead(g)
            /\ setup' = [setup EXCEPT !.roots.mem[i + 1] =
                           [data |-> Copied(g),
                            allowed_depths |->
                               IF allocated
                               THEN calloc(num_allowed_depths(Copied(g)),
                                           [data |-> Zeros(SizeofDepthData),
                                            visuals |-> Null])
                               ELSE Null]]
            /\ curr' = curr + NextReadSize
            /\ j' = 0
            /\ IF allocated THEN DecodeGoes("dec_depths") ELSE DecodeAllocFailed
            /\ UNCHANGED authVars
     ELSE \* x_connect_to_socket returns; x_connect_to_display frees the
          \* protocol name and the protocol data, and returns to main.
          /\ additional_data' = Null
          /\ auth' = NoAuth
          /\ freed' = freed \cup {[buffer |-> "auth_data", mem |-> auth_data.mem]}
          /\ auth_data' = Null
          /\ pc' = "connected"
          /\ UNCHANGED <<lookupVars, request_buffer, sent>>
          /\ UNCHANGED <<connVars, exitVars, curr, j, garbage, oob, setup>>
  /\ UNCHANGED <<srvVars, ioVars, response, i, k, extVars>>

DecDepths ==
  /\ pc = "dec_depths"
  /\ IF j < num_allowed_depths(setup.roots.mem[i + 1].data)
     THEN \E g \in Garbage, allocated \in BOOLEAN :
            /\ MarkRead(g)
            /\ setup' = [setup EXCEPT !.roots.mem[i + 1].allowed_depths.mem[j + 1] =
                           [data |-> Copied(g),
                            visuals |->
                               IF allocated
                               THEN calloc(num_visuals(Copied(g)), Zeros(SizeofVisualType))
                               ELSE Null]]
            /\ curr' = curr + NextReadSize
            /\ k' = 0
            /\ IF allocated THEN DecodeGoes("dec_visuals") ELSE DecodeAllocFailed
            /\ UNCHANGED i
     ELSE /\ i' = i + 1
          /\ DecodeGoes("dec_screens")
          /\ UNCHANGED <<curr, k, garbage, oob, setup>>
  /\ UNCHANGED <<authVars, srvVars, ioVars, response, j, extVars>>

DecVisuals ==
  /\ pc = "dec_visuals"
  /\ IF k < num_visuals(setup.roots.mem[i + 1].allowed_depths.mem[j + 1].data)
     THEN \E g \in Garbage :
            /\ MarkRead(g)
            /\ setup' = [setup EXCEPT
                           !.roots.mem[i + 1].allowed_depths.mem[j + 1].visuals.mem[k + 1] =
                              Copied(g)]
            /\ curr' = curr + NextReadSize
            /\ k' = k + 1
            /\ DecodeGoes("dec_visuals")
            /\ UNCHANGED j
     ELSE /\ j' = j + 1
          /\ DecodeGoes("dec_depths")
          /\ UNCHANGED <<curr, k, garbage, oob, setup>>
  /\ UNCHANGED <<authVars, srvVars, ioVars, response, i, extVars>>

(***************************************************************************)
(* After the handshake.  StartCall enters write_n or read_n at a site.     *)
(***************************************************************************)
StartCall(site, buf, n) ==
  /\ io' = Call(site, buf, n)
  /\ pc' = site
  /\ sys' = NoSys /\ wire' = <<>>
  /\ UNCHANGED <<ret, awaiting>>

\* The next name of the loop of print_x_extensions.
NextName ==
  /\ i' = i + 1
  /\ pc' = "ext_loop"
  /\ io' = NoCall /\ sys' = NoSys /\ wire' = <<>>
  /\ UNCHANGED <<ret, awaiting>>

\* The line print_x_extensions prints for a name whose opcode is not 0: the
\* name as listed, then the version v or "unknown version".
PrintExtension(v) ==
  printed' = Append(printed, [name |-> extension_names[i + 1], version |-> v])

\* The caller of x_get_extension_opcode once it returned op:
\* print_x_connection_data writes the enable request whatever op is;
\* print_x_extensions queries the version when op is not 0.
QeReturn(site, name, op) ==
  IF site = "big"
  THEN /\ StartCall("br_write", BigRequestsEnableRequest(op), 4)
       /\ UNCHANGED <<i, version, printed>>
  ELSE IF op = 0
  THEN NextName /\ version' = NoVersion /\ UNCHANGED printed
  ELSE IF x_get_extension_version(name) = "none"
            \/ x_get_extension_version(name) \in LocalFuncs
  THEN /\ NextName
       /\ version' = LocalVersion(x_get_extension_version(name))
       /\ PrintExtension(LocalVersion(x_get_extension_version(name)))
  ELSE /\ StartCall("vq_write", VersionRequest(x_get_extension_version(name), op),
                    Len(VersionRequest(x_get_extension_version(name), op)))
       /\ UNCHANGED <<i, version, printed>>

\* The result of x_get_extension_opcode after its read_n, the present flag
\* not looked at.
QueryExtensionOpcode_IgnoresPresent(num_read, r) ==
  IF num_read # SizeofReply \/ reply_status(r) # X_REPLY THEN 0
  ELSE query_extension_major_opcode(r)

\* x_get_extension_opcode up to its write_n: the request buffer is
\* allocated, or the function returns 0.
x_get_extension_opcode(site, name) ==
  /\ qsite' = site /\ qname' = name
  /\ opcode' = 0
  /\ \E allocated \in BOOLEAN :
       IF allocated
       THEN /\ StartCall("qe_write", QueryExtensionRequest(name),
                         8 + X_PAD(Len(name)))
            /\ UNCHANGED <<i, version, printed>>
       ELSE QeReturn(site, name, 0)

PrintConnectionData ==
  /\ pc = "connected"
  /\ max_request_len' = 4 * maximum_request_len(setup.data)
  /\ x_get_extension_opcode("big", X_EXTENSION_NAME_BIG_REQUESTS)
  /\ UNCHANGED <<connVars, exitVars, authVars, srvVars, response, additional_data, curr, j, k,
                 garbage, oob, setup, reply, extension_names, reported>>

QeWritten ==
  /\ pc = "qe_written"
  /\ IF ret # io.n
     THEN QeReturn(qsite, qname, 0)
     ELSE /\ StartCall("qe_read", Zeros(SizeofReply), SizeofReply)
          /\ UNCHANGED <<i, version, printed>>
  /\ UNCHANGED <<connVars, exitVars, authVars, srvVars, response, additional_data, curr, j, k,
                 garbage, oob, setup, qsite, qname, opcode, max_request_len, reply,
                 extension_names, reported>>

QueryExtensionOpcode(num_read, r) ==
  IF num_read # SizeofReply \/ reply_status(r) # X_REPLY THEN 0
  ELSE IF query_extension_present(r) # 0 THEN query_extension_major_opcode(r)
  ELSE 0

QeReply ==
  /\ pc = "qe_read_ret"
  /\ opcode' = QueryExtensionOpcode(ret, io.buf)
  /\ QeReturn(qsite, qname, QueryExtensionOpcode(ret, io.buf))
  /\ UNCHANGED <<connVars, exitVars, authVars, srvVars, response, additional_data, curr, j, k,
                 garbage, oob, setup, qsite, qname, max_request_len, reply,
                 extension_names, reported>>

\* print_x_font_path up to its write_n.
StartFontPath == StartCall("fp_write", GetFontPathRequest, 4)

\* print_x_connection_data going on without reading the reply.
BrWritten_NoRead ==
  /\ pc = "br_written"
  /\ StartFontPath
  /\ UNCHANGED <<connVars, exitVars, authVars, srvVars, decVars, setup, extVars>>

BrWritten ==
  /\ pc = "br_written"
  /\ IF ret = io.n
     THEN StartCall("br_read", Zeros(SizeofReply), SizeofReply)
     ELSE StartFontPath
  /\ UNCHANGED <<connVars, exitVars, authVars, srvVars, decVars, setup, extVars>>

\* BrReply that stores the length of the reply in the setup data.
BrReply_UpdatesSetup ==
  /\ pc = "br_read_ret"
  /\ max_request_len' = IF ret = SizeofReply
                        THEN 4 * big_requests_max_request_len(io.buf)
                        ELSE max_request_len
  /\ setup' = IF ret = SizeofReply
              THEN [setup EXCEPT !.data = [setup.data EXCEPT ![19] = io.buf[9],
                                                             ![20] = io.buf[10]]]
              ELSE setup
  /\ StartFontPath
  /\ UNCHANGED <<connVars, exitVars, authVars, srvVars, decVars, qsite, qname, opcode,
                 reply, extension_names, version, printed, reported>>

\* The status of the reply is not looked at.
BrReply ==
  /\ pc = "br_read_ret"
  /\ max_request_len' = IF ret = SizeofReply
                        THEN 4 * big_requests_max_request_len(io.buf)
                        ELSE max_request_len
  /\ StartFontPath
  /\ UNCHANGED <<connVars, exitVars, authVars, srvVars, decVars, setup, qsite, qname, opcode,
                 reply, extension_names, version, printed, reported>>

(***************************************************************************)
(* One read() at a site that does not loop: whatever it returns is the     *)
(* result (-1 for EINTR too).  A read for 0 bytes returns 0.               *)
(***************************************************************************)
ReadOnceOutcomes(len) ==
  IF len = 0 /\ ~broken THEN {[kind |-> "n", k |-> 0]} ELSE ReadOutcomes(len, 0, 0)

read_once(c, o, data) ==
  CASE o.kind = "n" ->
         [c |-> [c EXCEPT !.total = o.k,
                          !.buf = data \o SubSeq(c.buf, o.k + 1, Len(c.buf))],
          ret |-> o.k]
    [] o.kind = "eof" -> [c |-> c, ret |-> 0]
    [] OTHER -> [c |-> c, ret |-> -1]

ReadOnce ==
  /\ pc \in ReadOncePcs
  /\ \E o \in ReadOnceOutcomes(io.n) :
       LET r == read_once(io, o, SubSeq(inbuf, 1, o.k)) IN
         /\ io' = r.c
         /\ ret' = r.ret
         /\ sys' = [op |-> "read", off |-> 0, len |-> io.n, res |-> o.kind]
         /\ inbuf' = SubSeq(inbuf, o.k + 1, Len(inbuf))
         /\ wire' = SubSeq(inbuf, 1, o.k)
         /\ broken' = (broken \/ o.kind = "err")
  /\ awaiting' = FALSE
  /\ pc' = AfterPc(pc)
  /\ UNCHANGED <<connVars, exitVars, authVars, srv, srv_closed, srv_ext, decVars, setup, extVars>>

(***************************************************************************)
(* print_x_font_path.                                                      *)
(***************************************************************************)
\* print_x_extensions up to its write_n.
StartListExtensions == StartCall("le_write", ListExtensionsRequest, 4)

\* font_error: the buffer is freed, the failure reported, and main goes on.
font_error ==
  /\ additional_data' = Null
  /\ reported' = reported \cup {"font"}
  /\ StartListExtensions

FpWritten ==
  /\ pc = "fp_written"
  /\ IF ret # io.n
     THEN font_error
     ELSE /\ StartCall("fp_read", Zeros(SizeofReply), SizeofReply)
          /\ UNCHANGED <<additional_data, reported>>
  /\ UNCHANGED <<connVars, exitVars, authVars, srvVars, response, curr, i, j, k, garbage, oob,
                 setup, qsite, qname, opcode, max_request_len, reply, extension_names,
                 version, printed>>

\* After the reply header: the buffer for the additional data is allocated
\* and read() is called once.
FpReply ==
  /\ pc = "fp_read_ret"
  /\ reply' = io.buf
  /\ IF ret # SizeofReply \/ reply_status(io.buf) # X_REPLY
     THEN font_error
     ELSE \E allocated \in BOOLEAN :
            IF allocated
            THEN /\ additional_data' = Calloc(Zeros(4 * reply_data_len(io.buf)))
                 /\ StartCall("fp_read_data", Zeros(4 * reply_data_len(io.buf)),
                              4 * reply_data_len(io.buf))
                 /\ UNCHANGED reported
            ELSE font_error
  /\ UNCHANGED <<connVars, exitVars, authVars, srvVars, response, curr, i, j, k, garbage, oob,
                 setup, qsite, qname, opcode, max_request_len, extension_names, version, printed>>

FpDataRet ==
  /\ pc = "fp_data_ret"
  /\ IF ret # io.n
     THEN font_error /\ UNCHANGED curr
     ELSE /\ additional_data' = Calloc(io.buf)
          /\ curr' = 0
          /\ pc' = "fp_parse"
          /\ UNCHANGED <<ioVars, reported>>
  /\ UNCHANGED <<connVars, exitVars, authVars, srvVars, response, i, j, k, garbage, oob,
                 setup, qsite, qname, opcode, max_request_len, reply, extension_names,
                 version, printed>>

\* Whether reading n strings from offset off touches a byte past the buffer.
RECURSIVE StringsPastEnd(_, _, _)
StringsPastEnd(buf, off, n) ==
  IF n = 0 THEN FALSE
  ELSE IF off >= Len(buf) THEN TRUE
  ELSE IF off + 1 + buf[off + 1] > Len(buf) THEN TRUE
  ELSE StringsPastEnd(buf, off + 1 + buf[off + 1], n - 1)

\* The loop that prints the paths, and the free that follows it.
FpParse ==
  /\ pc = "fp_parse"
  /\ oob' = IF StringsPastEnd(additional_data.mem, 0, font_path_num_strings(reply))
            THEN oob \cup {"fonts"} ELSE oob
  /\ additional_data' = Null
  /\ StartListExtensions
  /\ UNCHANGED <<connVars, exitVars, authVars, srvVars, response, curr, i, j, k, garbage,
                 setup, extVars>>

(***************************************************************************)
(* print_x_extensions.                                                     *)
(***************************************************************************)
\* extensions_error: everything is freed, the failure reported, and the
\* function returns to main.
extensions_error ==
  /\ additional_data' = Null
  /\ extension_names' = <<>>
  /\ reported' = reported \cup {"extensions"}
  /\ pc' = "disconnect"
  /\ io' = NoCall /\ sys' = NoSys /\ wire' = <<>>
  /\ UNCHANGED <<ret, awaiting>>

LeWritten ==
  /\ pc = "le_written"
  /\ IF ret # io.n
     THEN extensions_error
     ELSE /\ StartCall("le_read", Zeros(SizeofReply), SizeofReply)
          /\ UNCHANGED <<additional_data, extension_names, reported>>
  /\ UNCHANGED <<connVars, exitVars, authVars, srvVars, response, curr, i, j, k, garbage, oob,
                 setup, qsite, qname, opcode, max_request_len, reply, version, printed>>

LeReply ==
  /\ pc = "le_read_ret"
  /\ reply' = io.buf
  /\ IF ret # SizeofReply \/ reply_status(io.buf) # X_REPLY
     THEN extensions_error
     ELSE \E allocated \in BOOLEAN :
            IF allocated
            THEN /\ additional_data' = Calloc(Zeros(4 * reply_data_len(io.buf)))
                 /\ StartCall("le_read_data", Zeros(4 * reply_data_len(io.buf)),
                              4 * reply_data_len(io.buf))
                 /\ UNCHANGED <<extension_names, reported>>
            ELSE extensions_error
  /\ UNCHANGED <<connVars, exitVars, authVars, srvVars, response, curr, i, j, k, garbage, oob,
                 setup, qsite, qname, opcode, max_request_len, version, printed>>

\* After the single read: the array of names is allocated.
LeDataRet ==
  /\ pc = "le_data_ret"
  /\ IF ret # io.n
     THEN extensions_error /\ UNCHANGED <<curr, i>>
     ELSE \E allocated \in BOOLEAN :
            IF allocated
            THEN /\ additional_data' = Calloc(io.buf)
                 /\ extension_names' = <<>>
                 /\ curr' = 0 /\ i' = 0
                 /\ pc' = "le_parse"
                 /\ UNCHANGED <<ioVars, reported>>
            ELSE extensions_error /\ UNCHANGED <<curr, i>>
  /\ UNCHANGED <<connVars, exitVars, authVars, srvVars, response, j, k, garbage, oob,
                 setup, qsite, qname, opcode, max_request_len, reply, version, printed>>

\* The length byte of the next name, and the bytes copied for it.
NameLen(g) == MemcpyFrom(additional_data.mem, curr, 1, g)[1]

NamePastEnd(g) ==
  ReadsPastEnd(additional_data.mem, curr, 1)
    \/ ReadsPastEnd(additional_data.mem, curr + 1, NameLen(g))

\* One name of the list; after the last one the names are sorted.
LeParse ==
  /\ pc = "le_parse"
  /\ IF i < list_extensions_num_names(reply)
     THEN \E g \in Garbage, allocated \in BOOLEAN :
            /\ garbage' = IF NamePastEnd(g) THEN g ELSE garbage
            /\ oob' = IF NamePastEnd(g) THEN oob \cup {"names"} ELSE oob
            /\ IF allocated
               THEN /\ extension_names' =
                         Append(extension_names,
                                CString(MemcpyFrom(additional_data.mem, curr + 1, NameLen(g), g)))
                    /\ curr' = curr + 1 + NameLen(g)
                    /\ i' = i + 1
                    /\ UNCHANGED <<pc, additional_data, ioVars, reported>>
               ELSE extensions_error /\ UNCHANGED <<curr, i>>
     ELSE /\ extension_names' = qsort(extension_names)
          /\ i' = 0
          /\ pc' = "ext_loop"
          /\ UNCHANGED <<additional_data, ioVars, reported, curr, garbage, oob>>
  /\ UNCHANGED <<connVars, exitVars, authVars, srvVars, response, j, k,
                 setup, qsite, qname, opcode, max_request_len, reply, version, printed>>

\* Every listed name queried under its own name.
QueriedName_AsListed(name) == name

\* The name whose opcode and version are queried for a listed name.
QueriedName(name) ==
  IF name = X_EXTENSION_NAME_NV_GLX THEN X_EXTENSION_NAME_GLX ELSE name

\* The loop over the sorted names; after it everything is freed.
ExtLoop ==
  /\ pc = "ext_loop"
  /\ IF i < list_extensions_num_names(reply)
     THEN /\ x_get_extension_opcode("ext", QueriedName(extension_names[i + 1]))
          /\ UNCHANGED <<additional_data, extension_names>>
     ELSE /\ additional_data' = Null
          /\ extension_names' = <<>>
          /\ pc' = "disconnect"
          /\ UNCHANGED <<ioVars, i, qsite, qname, opcode, version, printed>>
  /\ UNCHANGED <<connVars, exitVars, authVars, srvVars, response, curr, j, k, garbage, oob,
                 setup, max_request_len, reply, reported>>

\* A version query function after its write_n.
VqWritten ==
  /\ pc = "vq_written"
  /\ IF ret # io.n
     THEN NextName /\ version' = NoVersion /\ PrintExtension(NoVersion)
     ELSE /\ StartCall("vq_read", Zeros(SizeofReply), SizeofReply)
          /\ UNCHANGED <<i, version, printed>>
  /\ UNCHANGED <<connVars, exitVars, authVars, srvVars, response, additional_data, curr, j, k,
                 garbage, oob, setup, qsite, qname, opcode, max_request_len, reply,
                 extension_names, reported>>

\* A version query function after its read_n.
VqReply ==
  /\ pc = "vq_read_ret"
  /\ version' = VersionQueryResult(x_get_extension_version(qname), ret, io.buf)
  /\ PrintExtension(version')
  /\ NextName
  /\ UNCHANGED <<connVars, exitVars, authVars, srvVars, response, additional_data, curr, j, k,
                 garbage, oob, setup, qsite, qname, opcode, max_request_len, reply,
                 extension_names, reported>>

\* main that does not return after x_disconnect.
MainReturn_StaysInMain ==
  /\ pc = "disconnect"
  /\ x_disconnect
  /\ pc' = "disconnect"
  /\ exit_status' = 0
  /\ UNCHANGED <<err, authVars, srvVars, ioVars, decVars, setup, extVars>>

\* main: x_disconnect(); return 0.
MainReturn ==
  /\ pc = "disconnect"
  /\ x_disconnect
  /\ pc' = "exited"
  /\ exit_status' = 0
  /\ UNCHANGED <<err, authVars, srvVars, ioVars, decVars, setup, extVars>>

\* write() on a connection the server has closed raises SIGPIPE.  The
\* program leaves the disposition of the signal as it found it: with the
\* default one the process is killed here; with the signal ignored the
\* call fails with EPIPE, which is the outcome "err" of WriteN.
SigPipe ==
  /\ pc \in WritePcs /\ srv_closed
  /\ pc' = "killed"
  /\ exit_status' = 141
  /\ UNCHANGED <<connVars, err, authVars, srvVars, ioVars, decVars, setup, extVars>>

\* A read past the end of the buffer may also fault: the process is killed.
Segv ==
  /\ \/ pc \in DecodePcs /\ PastEnd /\ oob' = oob \cup {"decode"}
     \/ /\ pc = "hs_data_ret" /\ ret = io.n
        /\ resp_status(response) # X_CONNECTION_STATUS_SUCCESS /\ ~HasNul(io.buf)
        /\ oob' = oob \cup {"reason"}
     \/ /\ pc = "fp_parse"
        /\ StringsPastEnd(additional_data.mem, 0, font_path_num_strings(reply))
        /\ oob' = oob \cup {"fonts"}
     \/ /\ pc = "le_parse" /\ i < list_extensions_num_names(reply)
        /\ \E g \in Garbage : NamePastEnd(g)
        /\ oob' = oob \cup {"names"}
  /\ pc' = "crashed"
  /\ exit_status' = 139
  /\ UNCHANGED <<connVars, err, authVars, srvVars, ioVars, response, additional_data,
                 curr, i, j, k, garbage, setup, extVars>>

Handshake ==
  \/ x_connect_to_socket \/ WriteN \/ ReadN \/ HsWritten \/ HsHeader \/ HsData
  \/ DecHeader \/ DecVendor \/ DecFormats \/ DecScreens \/ DecDepths \/ DecVisuals \/ Segv

\* The server accepts and sends a setup announced with one of several
\* lengths; a server reached over the network refuses.
InitDecode ==
  InitWith(InWorlds(Accepting(FamilyDescs \cup {E2EDesc, TwoScreenDesc}), {HomeEnv})
             \cup InWorlds(Rejecting, {RemoteEnv}))

SpecDecode == InitDecode /\ [][Connect \/ Handshake]_vars

\* The same, the process not stopping while it has a step to take.
SpecTransfers == InitDecode /\ [][Connect \/ Handshake]_vars /\ WF_vars(Connect \/ Handshake)

(***************************************************************************)
(* The whole run: main.                                                    *)
(***************************************************************************)
Report ==
  \/ PrintConnectionData \/ QeWritten \/ QeReply \/ BrWritten \/ BrReply
  \/ FpWritten \/ FpReply \/ ReadOnce \/ FpDataRet \/ FpParse
  \/ LeWritten \/ LeReply \/ LeDataRet \/ LeParse \/ ExtLoop
  \/ VqWritten \/ VqReply \/ MainReturn \/ SigPipe

Next == Connect \/ Handshake \/ Report

\* The server accepts and sends the setup of E2EDesc or of TwoScreenDesc,
\* refuses, or stops part-way; a server that refuses is tried from every
\* environment.
Init ==
  InitWith(InWorlds({ExactlySized(E2EDesc), ExactlySized(TwoScreenDesc)}, {HomeEnv})
             \cup InWorlds(Rejecting \cup CutShort(ExactlySized(E2EDesc)),
                           {HomeEnv, EmptyCredentialEnv, RemoteEnv})
             \cup InWorlds({[bytes |-> Resp(0, <<78, 111, 0, 0>>, 1), closed |-> TRUE]},
                           Environments))

Spec == Init /\ [][Next]_vars


(***************************************************************************)
(* Properties of the handshake and of the decoder.                         *)
(***************************************************************************)
RECURSIVE SumSeq(_)
SumSeq(ns) == IF ns = <<>> THEN 0 ELSE Head(ns) + SumSeq(Tail(ns))

\* The additional data the server sent after the response header.
Payload == SubSeq(srv.bytes, SizeofSetupResponse + 1, Len(srv.bytes))

\* The offset at which the structure a buffer declares ends, walking ns
\* screens, nd depths and nv visuals from off; an offset past the end of the
\* buffer as soon as a struct does not fit.
RECURSIVE StructureEnd(_, _, _, _, _)
StructureEnd(buf, off, ns, nd, nv) ==
  IF off > Len(buf) THEN off
  ELSE IF nv > 0 THEN StructureEnd(buf, off + 24, ns, nd, nv - 1)
  ELSE IF nd > 0
    THEN IF off + 8 > Len(buf) THEN off + 8
         ELSE StructureEnd(buf, off + 8, ns, nd - 1, U16(buf, off + 2))
  ELSE IF ns > 0
    THEN IF off + 40 > Len(buf) THEN off + 40
         ELSE StructureEnd(buf, off + 40, ns - 1, U8(buf, off + 39), 0)
  ELSE off

DeclaredEnd(buf) ==
  IF Len(buf) < 32 THEN 32
  ELSE StructureEnd(buf, 32 + U16(buf, 16) + 8 * U8(buf, 21), U8(buf, 20), 0, 0)

\* The buffer ends before the last field its own counts require.
Truncated(buf) == DeclaredEnd(buf) > Len(buf)

\* The decoder has the whole additional data the server announced.
DataReceived == pc \in DecodePcs \cup {"connected", "crashed"}

\* C1 (as claimed): while the setup payload is decoded, no read touches a
\* byte at an offset >= 4 * additional_data_len of the additional data.
C1_NoReadPastTheBuffer ==
  pc \in DecodePcs => curr + NextReadSize <= 4 * resp_additional_data_len(response)

\* C2 (as claimed): decoding a payload that ends before the last field its
\* counts require ends in a fatal error and never yields the setup data.
C2_TruncatedPayloadIsFatal ==
  (DataReceived /\ Truncated(Payload)) => pc # "connected"

\* Offsets of the records in a payload, from its own counts.
RECURSIVE ScreenOff(_, _)
RECURSIVE DepthOff(_, _, _)
ScreenOff(buf, si) ==
  IF si = 0 THEN 32 + U16(buf, 16) + 8 * U8(buf, 21)
  ELSE DepthOff(buf, si - 1, U8(buf, ScreenOff(buf, si - 1) + 39))

DepthOff(buf, si, di) ==
  IF di = 0 THEN ScreenOff(buf, si) + 40
  ELSE LET prev == DepthOff(buf, si, di - 1) IN prev + 8 + 24 * U16(buf, prev + 2)

VisualOff(buf, si, di, vi) == DepthOff(buf, si, di) + 8 + 24 * vi

Bytes(buf, off, n) == SubSeq(buf, off + 1, off + n)

Roots == setup.roots.mem

Depths(si) == Roots[si + 1].allowed_depths.mem

Visuals(si, di) == Depths(si)[di + 1].visuals.mem

\* 32 + L + 8 F + sum_i (40 + sum_j (8 + 24 V_ij)), from the decoded counts.
ExpectedCursor ==
  32 + vendor_length(setup.data) + 8 * num_pixmap_formats(setup.data)
    + SumSeq([si \in 1..num_roots(setup.data) |->
        40 + SumSeq([di \in 1..num_allowed_depths(Roots[si].data) |->
               8 + 24 * num_visuals(Depths(si - 1)[di].data)])])

\* C3: a payload declaring L, F, N, D_i, V_ij decodes to exactly N screens
\* with D_i depths and V_ij visuals each, and the cursor ends at
\* 32 + L + 8 F + sum_i (40 + sum_j (8 + 24 V_ij)): the length of the buffer
\* when the buffer is sized exactly.
C3_DecodedCountsAndCursor ==
  (pc = "connected" /\ ~Truncated(Payload)) =>
    /\ vendor_length(setup.data) = U16(Payload, 16)
    /\ num_pixmap_formats(setup.data) = U8(Payload, 21)
    /\ Len(setup.pixmap_formats.mem) = U8(Payload, 21)
    /\ Len(Roots) = U8(Payload, 20)
    /\ \A si \in 0..(Len(Roots) - 1) :
         /\ Len(Depths(si)) = U8(Payload, ScreenOff(Payload, si) + 39)
         /\ \A di \in 0..(Len(Depths(si)) - 1) :
              Len(Visuals(si, di)) = U16(Payload, DepthOff(Payload, si, di) + 2)
    /\ curr = ExpectedCursor
    /\ curr = DeclaredEnd(Payload)
    /\ (DeclaredEnd(Payload) = Len(Payload) => curr = Len(Payload))

C3_Witness ==
  /\ pc = "connected" /\ ~Truncated(Payload)
  /\ Len(Roots) = 2 /\ Len(Depths(0)) = 2 /\ Len(Visuals(0, 0)) = 2 /\ Len(Depths(1)) = 1
  /\ vendor_length(setup.data) = 4
  /\ curr = Len(Payload)

\* C5: after a successful handshake every decoded record holds the wire
\* bytes at its position: pixmap format m is the m-th 8-byte record after
\* the vendor name, visual k of depth j of screen i the k-th 24-byte record
\* after that depth's 8-byte header; the end-to-end payload decodes to
\* num_pixmap_formats = 1 and roots[0].allowed_depths[0].visuals[0].red_mask
\* = 0xff0000.
C5_RecordsHoldWireValues ==
  (pc = "connected" /\ ~Truncated(Payload)) =>
    /\ setup.data = Bytes(Payload, 0, 32)
    /\ setup.vendor_name.mem = Bytes(Payload, 32, U16(Payload, 16)) \o <<0>>
    /\ \A m \in 0..(Len(setup.pixmap_formats.mem) - 1) :
         setup.pixmap_formats.mem[m + 1] = Bytes(Payload, 32 + U16(Payload, 16) + 8 * m, 8)
    /\ \A si \in 0..(Len(Roots) - 1) :
         /\ Roots[si + 1].data = Bytes(Payload, ScreenOff(Payload, si), 40)
         /\ \A di \in 0..(Len(Depths(si)) - 1) :
              /\ Depths(si)[di + 1].data = Bytes(Payload, DepthOff(Payload, si, di), 8)
              /\ \A vi \in 0..(Len(Visuals(si, di)) - 1) :
                   Visuals(si, di)[vi + 1] = Bytes(Payload, VisualOff(Payload, si, di, vi), 24)
    /\ Payload = EncSetup(E2EDesc) =>
         /\ num_pixmap_formats(setup.data) = 1
         /\ format_depth(setup.pixmap_formats.mem[1]) = 24
         /\ format_bits_per_pixel(setup.pixmap_formats.mem[1]) = 32
         /\ format_scanline_pad(setup.pixmap_formats.mem[1]) = 32
         /\ depth_depth(Depths(0)[1].data) = 24
         /\ visual_id(Visuals(0, 0)[1]) = 33
         /\ visual_class(Visuals(0, 0)[1]) = 4
         /\ red_mask(Visuals(0, 0)[1]) = 16711680
         /\ green_mask(Visuals(0, 0)[1]) = 65280
         /\ blue_mask(Visuals(0, 0)[1]) = 255

C5_Witness ==
  /\ pc = "connected"
  /\ Payload = EncSetup(E2EDesc)
  /\ num_pixmap_formats(setup.data) = 1
  /\ red_mask(Visuals(0, 0)[1]) = 16711680


(***************************************************************************)
(* Properties of the whole run.                                            *)
(***************************************************************************)
HandshakePcs ==
  {"start", "get_socket", "tcp_loop", "connect_to_socket", "hs_write", "hs_written", "hs_read_hdr", "hs_hdr_ret", "hs_read_data",
   "hs_data_ret"} \cup DecodePcs

\* The handshake succeeded and the run has neither released the setup data
\* nor ended.
Serving == pc \notin HandshakePcs \cup {"exited", "crashed"} /\ ~released

\* C4: from the end of a successful handshake until release, the stored
\* pixmap formats are num_pixmap_formats many, the stored screens num_roots
\* many, every screen's depth list has num_allowed_depths entries and every
\* depth's visual list num_visuals entries.
C4_ListsMatchCounts ==
  Serving =>
    /\ ~setup.pixmap_formats.null /\ ~setup.roots.null
    /\ Len(setup.pixmap_formats.mem) = num_pixmap_formats(setup.data)
    /\ Len(Roots) = num_roots(setup.data)
    /\ \A si \in 0..(Len(Roots) - 1) :
         /\ ~Roots[si + 1].allowed_depths.null
         /\ Len(Depths(si)) = num_allowed_depths(Roots[si + 1].data)
         /\ \A di \in 0..(Len(Depths(si)) - 1) :
              /\ ~Depths(si)[di + 1].visuals.null
              /\ Len(Visuals(si, di)) = num_visuals(Depths(si)[di + 1].data)

C4_Witness ==
  /\ pc = "vq_read" /\ Serving
  /\ num_roots(setup.data) = 2 /\ num_pixmap_formats(setup.data) = 2
  /\ Len(Visuals(0, 0)) = 2 /\ Len(Visuals(0, 1)) = 0 /\ Len(Depths(1)) = 1

\* C6 (as claimed): on every exit path of a run that opened a connection,
\* the descriptor of the connection is closed exactly once before the
\* process ends.
C6_DescriptorClosedOnceOnExit ==
  (pc = "exited" /\ opens > 0) => (closes = 1 /\ ~fd_open)

WrittenPcs == {"hs_written", "qe_written", "br_written", "fp_written", "le_written", "vq_written"}

ReadNRetPcs ==
  {"hs_hdr_ret", "hs_data_ret", "qe_read_ret", "br_read_ret", "fp_read_ret", "le_read_ret",
   "vq_read_ret"}

\* C7: over the whole run a request that was sent is followed at once by a
\* read of its reply: while the reply of a request written in full is not
\* yet read from, the run is at the return of that write or in the read
\* that follows it, and only a read() ends the wait; no request is written
\* in between.
C7_ReplyReadBeforeNextRequest ==
  /\ [](awaiting => pc \in WrittenPcs \cup ReadNPcs)
  /\ []((pc \in WrittenPcs /\ ret = io.n) => awaiting)
  /\ [][(awaiting /\ pc \in WrittenPcs) => (pc' \in ReadNPcs /\ awaiting')]_vars
  /\ [][(awaiting /\ ~awaiting') => (pc \in ReadNPcs /\ sys'.op = "read")]_vars

C7_Witness ==
  /\ pc = "vq_read" /\ ~awaiting /\ io.total > 0
  /\ qsite = "ext" /\ opcode # 0

\* C8 (amended): write_n returns n only after all n bytes of buf were handed
\* to the transport in order; after a partial write it goes on with the
\* remaining bytes at the offset reached; a write interrupted by EINTR is
\* retried with the same offset and length; a non-interrupt error, or a
\* write that returns 0, makes it return failure, which the handshake turns
\* into a fatal write failure.
C8_WriteNHandsOverAllBytes ==
  /\ []((pc \in WritePcs) =>
          /\ wire = SubSeq(io.buf, 1, io.total)
          /\ io.off = io.total /\ io.total < io.n)
  /\ []((pc \in WritePcs /\ sys.res = "eintr") =>
          (sys.off = io.off /\ sys.len = io.n - io.total))
  /\ []((pc \in WrittenPcs /\ ret = io.n) => wire = SubSeq(io.buf, 1, io.n))
  /\ []((pc \in WrittenPcs /\ ret # io.n) => (ret = -1 /\ sys.res \in {"err", "zero"}))
  /\ [][(pc = "hs_written" /\ ret # io.n) =>
          /\ pc' = "exited" /\ exit_status' = 1
          /\ err' = "Failed to send connection request to X server"]_vars

C8_Witness ==
  /\ pc = "hs_written" /\ ret = io.n
  /\ io.short > 0 /\ io.eintr > 0
  /\ wire = SetupRequest(MitCredential.name, MitCredential.data)

\* C8 (as claimed): only a non-interrupt error makes write_n return failure.
C8_OnlyAnErrorFails ==
  (pc \in WrittenPcs /\ ret # io.n) => sys.res = "err"

\* C9: read_n returns n only after n bytes were stored consecutively in buf,
\* across short reads and EINTR; at end of stream after k < n bytes it
\* returns k; the handshake takes any result other than the full 8-byte
\* response header for a fatal truncated response.
C9_ReadNStoresAllBytes ==
  /\ []((pc \in ReadNPcs) =>
          /\ SubSeq(io.buf, 1, io.total) = wire
          /\ SubSeq(io.buf, io.total + 1, io.n) = Zeros(io.n - io.total)
          /\ io.off = io.total)
  /\ []((pc \in ReadNRetPcs /\ ret = io.n) => (io.buf = wire /\ Len(wire) = io.n))
  /\ []((pc \in ReadNRetPcs /\ sys.res = "eof") =>
          (ret = Len(wire) /\ ret < io.n /\ SubSeq(io.buf, 1, ret) = wire))
  /\ [][(pc = "hs_hdr_ret" /\ ret # SizeofSetupResponse) =>
          /\ pc' = "exited" /\ exit_status' = 1
          /\ err' = "Failed to read connection setup response from X server"]_vars
  /\ [][(pc = "hs_hdr_ret" /\ ret = SizeofSetupResponse) =>
          err' # "Failed to read connection setup response from X server"]_vars

C9_Witness ==
  /\ pc = "exited"
  /\ err = "Failed to read connection setup response from X server"
  /\ sys.res = "eof" /\ ret = 3 /\ io.short > 0

AllReadRetPcs == ReadNRetPcs \cup {"fp_data_ret", "le_data_ret"}

\* C10 (as claimed): for every socket read of the program, a read that
\* returns fewer bytes than requested without end of stream or error is no
\* failure: when the reading ends on a call that transferred bytes, the
\* full length was transferred.
C10_ShortReadIsNotAFailure ==
  (pc \in AllReadRetPcs /\ sys.op = "read" /\ sys.res = "n") => ret = io.n


(***************************************************************************)
(* Properties of the response to the setup request.                        *)
(***************************************************************************)
\* C11: after the 8-byte response header the handshake asks read_n for
\* 4 * additional_data_len bytes, whatever the header holds and whatever
\* its status; when read_n returns that count, exactly the bytes that
\* follow the header on the connection were consumed and what comes after
\* them is still unread; the status is acted upon (refusal, or start of
\* decoding) only from there; when the server sent fewer bytes the count
\* differs and the run dies.
C11_ReadsAnnouncedAdditionalData ==
  /\ [](pc \in {"hs_read_data", "hs_data_ret"} =>
          /\ response = SubSeq(srv.bytes, 1, 8)
          /\ io.n = 4 * (srv.bytes[7] + 256 * srv.bytes[8]))
  /\ []((pc = "hs_data_ret" /\ ret = io.n) =>
          /\ wire = SubSeq(srv.bytes, 9, 8 + io.n)
          /\ inbuf = SubSeq(srv.bytes, 9 + io.n, Len(srv.bytes)))
  /\ []((pc = "hs_data_ret" /\ Len(srv.bytes) - 8 < io.n) => ret # io.n)
  /\ [][((err' = "Connection to X server failed" /\ err # err')
            \/ (pc' = "dec_header" /\ pc # pc')) =>
          (pc = "hs_data_ret" /\ ret = io.n /\ Len(wire) = io.n)]_vars
  /\ [][(pc = "hs_data_ret" /\ ret # io.n) =>
          /\ pc' = "exited" /\ exit_status' = 1
          /\ err' = "Failed to read additional connection information from X server"]_vars

C11_Witness ==
  /\ pc = "exited" /\ err = "Connection to X server failed"
  /\ io.site = "hs_read_data" /\ io.n = 4 /\ io.short > 0
  /\ wire = <<78, 111, 0, 0>> /\ inbuf = <<9, 9>>

\* A run that ended after the additional data of a refusal was read.
RefusalRead ==
  /\ pc \in {"exited", "crashed"}
  /\ io.site = "hs_read_data" /\ ret = io.n
  /\ response[1] # X_CONNECTION_STATUS_SUCCESS

\* C12 (as claimed): when the status of the response is not success, the
\* reason is printed from the bytes of the additional data and from no byte
\* outside them, the connection is closed, the run fails, and no step of
\* the decoder is taken.
C12_RefusalSurfacedFromAdditionalData ==
  RefusalRead =>
    /\ "reason" \notin oob
    /\ pc = "exited" /\ exit_status = 1 /\ err = "Connection to X server failed"
    /\ closes = 1 /\ ~fd_open /\ fd = NoFd
    /\ setup = ZeroSetup /\ curr = 0

(***************************************************************************)
(* Properties of the credential lookup.                                    *)
(***************************************************************************)
\* The entries the Xauthority file holds in full.
Entries ==
  IF env.xauthority.cut = 0 THEN env.xauthority.records
  ELSE SubSeq(env.xauthority.records, 1, Len(env.xauthority.records) - 1)

\* The host the lookup is made for: the local host when the display name
\* names none, else the host name the program holds.
LookupHost == IF target.hostname_len = 0 THEN env.localhost ELSE target.hostname

\* The entries of the host and of the display number, in file order.
Matching ==
  SelectSeq(Entries, LAMBDA r : r.address = LookupHost /\ r.number = Digits(env.display.number))

\* C13: when the Xauthority file was opened and holds no entry of the host
\* and display number looked for, the run ends in die("No X authentication
\* data for the specified display") with no socket call made, no socket
\* created or connected and no byte of the setup request written; it never
\* ends in one of the errors of the transport.  (A run that cannot allocate
\* the buffer of a string of the file dies of that before.)
C13_NoCredentialNoConnection ==
  (/\ pc # "start" /\ env.display.number >= 0 /\ env.xauthority.readable
   /\ Matching = <<>> /\ err # "Memory allocation failed") =>
    /\ pc = "exited" /\ exit_status = 1
    /\ err = "No X authentication data for the specified display"
    /\ net = <<>> /\ transport = "none" /\ sock = NoFd /\ fd = NoFd /\ opens = 0
    /\ sent = 0 /\ io = NoCall /\ request_buffer = Null

C13_Witness ==
  /\ pc = "exited" /\ err = "No X authentication data for the specified display"
  /\ env.display.number = 1 /\ Len(Entries) = 4 /\ Matching = <<>>
  /\ net = <<>> /\ sent = 0

\* C14 (as claimed): when the file holds several entries of the host and
\* display number, the protocol name and protocol data handed to the
\* handshake are those of the first of them in file order.
C14_FirstMatchingEntryIsUsed ==
  (pc \in {"get_socket", "tcp_loop", "connect_to_socket", "hs_write"} /\ Len(Matching) > 1) =>
    auth = [name |-> Matching[1].name, data |-> Matching[1].data]

\* Whether a buffer holds protocol data of a credential: a setup request
\* whose auth_data_len field is not 0, or the buffer of a counted string of
\* the file (length + 1 bytes) whose length is not 0.
HoldsProtocolData(buffer, mem) ==
  IF buffer = "request_buffer" THEN mem[9] + 256 * mem[10] > 0 ELSE Len(mem) > 1

\* C15 (as claimed): every buffer holding the protocol data of the
\* credential (the buffer read from the Xauthority file, the setup request)
\* holds only zeros when it is released: when free() is called on it, and
\* when the process ends while it is allocated.
C15_SecretsZeroedBeforeRelease ==
  /\ \A b \in freed : HoldsProtocolData(b.buffer, b.mem) => b.mem = Zeros(Len(b.mem))
  /\ (pc \in {"exited", "crashed"} /\ ~auth_data.null
        /\ HoldsProtocolData("auth_data", auth_data.mem)) =>
       auth_data.mem = Zeros(Len(auth_data.mem))
  /\ (pc \in {"exited", "crashed"} /\ ~request_buffer.null
        /\ HoldsProtocolData("request_buffer", request_buffer.mem)) =>
       request_buffer.mem = Zeros(Len(request_buffer.mem))

(***************************************************************************)
(* Properties of the display name and of the transport.                    *)
(***************************************************************************)
\* Whether a host part ends with "/unix".
EndsWithUnix(host) ==
  /\ Len(host) >= 5
  /\ SubSeq(host, Len(host) - 4, Len(host)) = <<47, 117, 110, 105, 120>>

\* C16 (as claimed): the transport chosen is the UNIX domain socket exactly
\* when the host part of the display name is empty or ends with "/unix",
\* and the network otherwise.
C16_LocalTransportIffEmptyOrUnixSuffix ==
  (transport # "none") =>
    (transport = "unix" <=> (env.display.host = <<>> \/ EndsWithUnix(env.display.host)))

\* C17: a display name "host:seq" or ":seq" parses to sequence number seq
\* and screen 0, and "host:seq.screen" to seq and screen, whatever comes of
\* the run afterwards.
C17_NumberAndScreenParsed ==
  (pc # "start" /\ env.display.number >= 0) =>
    /\ target.number = env.display.number
    /\ target.screen = IF env.display.screen < 0 THEN 0 ELSE env.display.screen

C17_Witness ==
  /\ pc = "tcp_loop"
  /\ env.display.host = <<97, 98>> /\ env.display.name = <<97, 98, 58, 49, 46, 49>>
  /\ target.number = 1 /\ target.screen = 1

\* The positions of net that hold a call with the given op.
Calls(op) == {p \in 1..Len(net) : net[p].op = op}

\* The run has left get_socket_for_display with a socket.
SocketReturned == pc \notin {"start", "get_socket", "tcp_loop", "exited", "crashed"} \/ opens > 0

\* C18: over the network the candidates are tried in the order getaddrinfo
\* returned them, one socket each; a connect that succeeds is the last call
\* made, so no later candidate is tried, and its socket is the one
\* returned; a connect that fails is followed at once by the close of its
\* socket; the run dies when getaddrinfo fails and when every candidate
\* was tried without a connect succeeding.
C18_CandidatesTriedInOrder ==
  (transport = "tcp") =>
    /\ net[1].op = "getaddrinfo" /\ Calls("getaddrinfo") = {1}
    /\ \A p \in Calls("socket") :
         net[p].cand = Cardinality({q \in Calls("socket") : q <= p})
    /\ \A p \in Calls("connect") :
         /\ net[p - 1] = Event("socket", net[p].cand, TRUE)
         /\ net[p].ok => (p = Len(net) /\ SocketReturned /\ sock = 3)
         /\ ~net[p].ok => (p < Len(net) /\ net[p + 1] = Event("close", net[p].cand, TRUE))
    /\ \A p \in Calls("close") : net[p - 1] = Event("connect", net[p].cand, FALSE)
    /\ SocketReturned => (net[Len(net)].op = "connect" /\ net[Len(net)].ok)
    /\ ~net[1].ok =>
         /\ Len(net) = 1 /\ pc = "exited" /\ exit_status = 1
         /\ err = "Failed to resolve X server host name"
    /\ (net[1].ok /\ pc # "tcp_loop" /\ ~SocketReturned) =>
         /\ Cardinality(Calls("socket")) = info
         /\ pc = "exited" /\ exit_status = 1 /\ err = "Failed to connect to X server"

C18_Witness ==
  /\ pc = "hs_write" /\ transport = "tcp" /\ fd = 3
  /\ net = <<Event("getaddrinfo", 0, TRUE),
             Event("socket", 1, TRUE), Event("connect", 1, FALSE), Event("close", 1, TRUE),
             Event("socket", 2, TRUE), Event("connect", 2, TRUE)>>

\* The run died of the transport.
TransportFailed ==
  /\ pc = "exited"
  /\ err \in {"Failed to create UNIX domain socket", "Failed to connect to X server",
              "Failed to resolve X server host name"}

\* C19: when the connect of the UNIX domain socket fails, when getaddrinfo
\* fails, and when every candidate failed, the run dies of the transport;
\* a run that died of the transport wrote no byte of the setup request
\* (no write_n was called at all), and every socket it created was closed.
C19_TransportFailureBeforeAnyWrite ==
  /\ (\/ transport = "unix" /\ \E p \in 1..Len(net) : ~net[p].ok
      \/ transport = "tcp" /\ ~net[1].ok
      \/ /\ transport = "tcp" /\ pc # "tcp_loop" /\ Cardinality(Calls("socket")) = info
         /\ \A p \in Calls("connect") : ~net[p].ok) => TransportFailed
  /\ TransportFailed =>
       /\ exit_status = 1
       /\ sent = 0 /\ io = NoCall /\ wire = <<>> /\ sys = NoSys /\ request_buffer = Null
       /\ opens = 0 /\ ~fd_open /\ fd = NoFd
       /\ \A p \in Calls("socket") :
            net[p].ok => \E q \in Calls("close") : q > p /\ net[q].cand = net[p].cand

C19_Witness ==
  /\ TransportFailed /\ transport = "unix"
  /\ net = <<Event("socket", 0, TRUE), Event("connect", 0, FALSE), Event("close", 0, TRUE)>>
  /\ sent = 0

(***************************************************************************)
(* Properties of x_get_extension_opcode.                                   *)
(***************************************************************************)
QePcs == {"qe_write", "qe_written", "qe_read", "qe_read_ret"}

\* C20: x_get_extension_opcode returns the major_opcode of the reply when
\* read_n gave all 32 bytes of a reply with status X_REPLY and a present
\* flag other than 0, and 0 otherwise: when the request buffer cannot be
\* allocated (the function returns without a write), when write_n falls
\* short (it returns without a read), when the reply is short, is no reply
\* or has present 0.  No step of the function ends the run.  (The last part
\* fails: the write_n of the function on a connection the server has closed
\* raises SIGPIPE, see SigPipe.)
C20_OpcodeOrZero ==
  /\ [][(pc = "qe_read_ret") =>
          opcode' = IF ret = 32 /\ io.buf[1] = X_REPLY /\ io.buf[9] # 0 THEN io.buf[10] ELSE 0]_vars
  /\ [][(pc = "qe_written" /\ ret # io.n) => (opcode' = 0 /\ pc' \notin QePcs)]_vars
  /\ [][(pc \in {"connected", "ext_loop"} /\ pc' \notin QePcs \cup {"disconnect"}) =>
          opcode' = 0]_vars
  /\ [](pc \in QePcs => opcode = 0)
  /\ [][(pc \in QePcs \/ pc' \in QePcs) => (pc' \notin {"exited", "crashed"} /\ exit_status' = -1)]_vars

C20_Witness ==
  /\ pc = "vq_write" /\ qsite = "ext" /\ opcode = 128
  /\ qname = X_EXTENSION_NAME_XTEST

(***************************************************************************)
(* Properties of the extension report.                                     *)
(***************************************************************************)
\* The server sent its list and answers by it.
ListedServer == srv_ext.mode = "listed"

\* C21: against a server that answers ListExtensions and QueryExtension
\* consistently, x_get_extension_opcode returns a nonzero opcode for a name
\* that is in the list the server sent and 0 for a name that is not, once
\* its exchange took place (the request written, the 32 bytes of the reply
\* read); so does the opcode resolved for BIG-REQUESTS before the list was
\* asked for.
C21_OpcodeNonzeroIffListed ==
  /\ [][(pc = "qe_read_ret" /\ ret = SizeofReply /\ ListedServer) =>
          ((opcode' # 0) <=> Holds(srv_ext.names, qname))]_vars
  /\ []((ListedServer /\ qsite = "big" /\ ~broken) =>
          ((opcode # 0) <=> Holds(srv_ext.names, X_EXTENSION_NAME_BIG_REQUESTS)))

\* The list holds BIG-REQUESTS and NV-GLX but not GLX: the opcode of the
\* first was resolved, and the opcode of GLX came back as 0.
C21_Witness ==
  /\ pc = "ext_loop" /\ i = 2 /\ ListedServer /\ ~broken
  /\ Len(printed) = 1 /\ printed[1].name = X_EXTENSION_NAME_BIG_REQUESTS
  /\ qname = X_EXTENSION_NAME_GLX /\ opcode = 0 /\ ret = SizeofReply

\* C22 (as claimed): the decoder of the ListExtensions reply reads num_names
\* counted strings, moving its cursor forward, and never reads a length
\* byte or a byte of a name at an offset of the additional data that is
\* 4 * data_len or more.
C22_NamesReadWithinAdditionalData ==
  /\ "names" \notin oob
  /\ pc = "le_parse" =>
       /\ Len(extension_names) = i /\ i <= list_extensions_num_names(reply)
       /\ Len(additional_data.mem) = 4 * reply_data_len(reply)
       /\ ("names" \notin oob => curr <= 4 * reply_data_len(reply))

\* The entries of the version table whose function exchanges a request and
\* a reply with the server.
ExchangeEntries ==
  {x \in 1..Len(x_extensions) : x_extensions[x].version_query_func \notin LocalFuncs}

\* The layout of the reply of an entry; an entry whose function reads no
\* reply is tried with 16-bit fields.
EntryLayout(x) ==
  IF x \in ExchangeEntries THEN ReplyLayout(x_extensions[x].version_query_func) ELSE "v16"

\* Versions to try in a layout: 0.0, 2.4, and the largest a field holds
\* (2^31 - 1 in a 32-bit field).
SampleVersions(layout) ==
  {<<0, 0>>, <<2, 4>>,
   CASE layout = "v8" -> <<255, 255>>
     [] layout = "v16" -> <<65535, 65535>>
     [] layout = "v32" -> <<2147483647, 2147483647>>
     [] layout = "xtest" -> <<255, 65535>>}

\* What the version query of an entry reports when the reply r is what the
\* server sends.
EntryResult(x, r) ==
  IF x \in ExchangeEntries
  THEN VersionQueryResult(x_extensions[x].version_query_func, SizeofReply, r)
  ELSE LocalVersion(x_extensions[x].version_query_func)

ReportsReplyFields(x) ==
  /\ \A v \in SampleVersions(EntryLayout(x)) :
       EntryResult(x, VersionReply(EntryLayout(x), v[1], v[2]))
         = [ok |-> TRUE, major |-> v[1], minor |-> v[2]]
  /\ ~EntryResult(x, ErrorReply).ok

\* C23 (amended): for every entry of x_extensions but those of BIG-REQUESTS
\* and NV-GLX, the version query reports (M, m) when the server returns a
\* 32-byte reply with status REPLY and version fields (M, m), and a failure
\* when the status of the reply is not REPLY; the entry of BIG-REQUESTS
\* reports 2.0 and the entry of NV-GLX a failure, both without a request.
C23_ExchangeEntriesReportReplyFields ==
  /\ \A x \in ExchangeEntries : ReportsReplyFields(x)
  /\ LocalVersion("x_big_request_query_version") = [ok |-> TRUE, major |-> 2, minor |-> 0]
  /\ ~LocalVersion("x_invalid_query_version").ok
  /\ [][(pc = "vq_read_ret" /\ ret = SizeofReply) =>
          /\ wire = VersionReply(ReplyLayout(x_get_extension_version(qname)), 2, 4) =>
               version' = [ok |-> TRUE, major |-> 2, minor |-> 4]
          /\ wire = ErrorReply => ~version'.ok]_vars
  /\ [][(printed' # printed /\ pc # "vq_read_ret" /\ pc # "vq_written") =>
          /\ ~awaiting'
          /\ x_get_extension_version(qname') \in LocalFuncs \cup {"none"}
          /\ version' = LocalVersion(x_get_extension_version(qname'))]_vars

\* The version of MIT-SCREEN-SAVER, whose function sends a request with
\* 8-bit fields and reads a reply with 16-bit fields, was reported from the
\* reply of a consistent server: 2.4.
C23_Witness ==
  /\ pc = "ext_loop" /\ i = 1 /\ ListedServer /\ Len(printed) = 1
  /\ printed[1].version = [ok |-> TRUE, major |-> 2, minor |-> 4]
  /\ x_get_extension_version(qname) = "x_mit_screen_saver_query_version"

\* C23 (as claimed): every entry of x_extensions reports (M, m) for a reply
\* with status REPLY and version fields (M, m), and a failure otherwise:
\* with a server whose version replies all carry 2.4, every version the run
\* reports for a listed extension is 2.4, and every entry the run has looked
\* up passes ReportsReplyFields.
C23_EveryEntryReportsReplyFields ==
  \A n \in 1..Len(printed) :
    /\ printed[n].version.ok => printed[n].version = [ok |-> TRUE, major |-> 2, minor |-> 4]
    /\ \A x \in 1..Len(x_extensions) :
         x_extensions[x].name = QueriedName(printed[n].name) => ReportsReplyFields(x)

\* The table has no entry for the name.
NotInTable(name) == \A x \in 1..Len(x_extensions) : x_extensions[x].name # name

\* C24: when the opcode of a listed extension resolved to a nonzero value
\* and the version table has no entry for its name, x_get_extension_version
\* writes no request and reports failure; the extension is printed with
\* "unknown version", and the run goes on with the next name.
C24_UnknownDialectIsVersionUnknown ==
  [][(pc = "qe_read_ret" /\ qsite = "ext" /\ opcode' # 0 /\ NotInTable(qname)) =>
       /\ pc' = "ext_loop" /\ i' = i + 1
       /\ io' = NoCall /\ inbuf' = inbuf /\ ~awaiting'
       /\ ~version'.ok
       /\ printed' = Append(printed, [name |-> extension_names[i + 1],
                                      version |-> [ok |-> FALSE, major |-> 0, minor |-> 0]])
       /\ exit_status' = -1 /\ reported' = reported]_vars

\* The server listed "Z" and gave it an opcode: the line of "Z" was printed
\* with an unknown version.
C24_Witness ==
  /\ pc = "ext_loop" /\ i = 1 /\ opcode # 0 /\ qname = <<90>>
  /\ printed = <<[name |-> <<90>>, version |-> [ok |-> FALSE, major |-> 0, minor |-> 0]]>>

\* The positions of the loop of print_x_extensions over the sorted names.
ExtLoopPcs ==
  {"ext_loop", "qe_write", "qe_written", "qe_read", "qe_read_ret",
   "vq_write", "vq_written", "vq_read", "vq_read_ret"}

InExtLoop == pc \in ExtLoopPcs /\ (pc \in QePcs => qsite = "ext")

\* C25: a failure of the opcode or version exchange of one extension never
\* ends the run: from every position of the loop the next step stays in
\* the loop or, after the last name, goes to the teardown, with no exit
\* status set; the loop goes from one name to the next one; a name whose
\* exchange failed has no line (absent) or a line with an unknown version.
\* (As claimed.  It fails: once the server has closed the connection, the
\* write of the next request raises SIGPIPE, see SigPipe.)
C25_ExtensionFailureNeverAborts ==
  [][InExtLoop =>
       /\ pc' \in ExtLoopPcs \cup {"disconnect"}
       /\ exit_status' = -1
       /\ (pc' = "disconnect" => i = list_extensions_num_names(reply))
       /\ (i' # i => (i' = i + 1 /\ pc' = "ext_loop"))
       /\ ((pc \in {"qe_written", "vq_written"} /\ ret # io.n) =>
             (i' = i + 1 /\ (printed' # printed => ~version'.ok)))
       /\ ((pc \in {"qe_read_ret", "vq_read_ret"}
              /\ (ret # SizeofReply \/ reply_status(io.buf) # X_REPLY)) =>
             (i' = i + 1 /\ (printed' # printed => ~version'.ok)))]_vars

\* x_connect_to_socket returned: its caller freed the credential data.
HandshakeSucceeded == \E f \in freed : f.buffer = "auth_data"

\* C26: the process ends with a status other than 0 exactly when the run
\* failed before or during the handshake; whatever fails after a handshake
\* that succeeded, the status is 0.  (As claimed.  It fails: after the
\* handshake the process can be killed by SIGPIPE, see SigPipe, or by a
\* fault of a read past the end of a reply, see Segv.)
C26_NonZeroExitIffHandshakeFailed ==
  pc \in {"exited", "killed", "crashed"} => (exit_status # 0 <=> ~HandshakeSucceeded)

(***************************************************************************)
(* Properties of the padding and of the setup request.                     *)
(***************************************************************************)
\* The lengths a 16-bit length field can hold.
Lengths == 0 .. 65535

\* X_PAD(len) is the smallest multiple of 4 that is not below len.
SmallestMultipleOfFour(len) ==
  /\ X_PAD(len) % 4 = 0
  /\ X_PAD(len) >= len
  /\ \A m \in len .. (X_PAD(len) - 1) : m % 4 # 0

PaddingLaw ==
  \A len \in Lengths :
    /\ X_PADDING(len) = (4 - (len % 4)) % 4
    /\ 0 <= X_PADDING(len) /\ X_PADDING(len) < 4
    /\ X_PAD(len) = len + X_PADDING(len)
    /\ SmallestMultipleOfFour(len)

\* C27: for every length of 0 .. 65535, X_PADDING(len) is (4 - len % 4) % 4
\* and lies in 0 .. 3, and X_PAD(len) is len + X_PADDING(len), the smallest
\* multiple of 4 that is not below len; so the name of a QueryExtension
\* request is written padded to that multiple.
C27_PaddingToFourBytes ==
  /\ PaddingLaw
  /\ pc = "qe_write" =>
       /\ io.n = 8 + Len(qname) + ((4 - (Len(qname) % 4)) % 4)
       /\ (io.n - 8) % 4 = 0
       /\ io.n - 8 - Len(qname) \in 0 .. 3

\* The request for XTEST, a name of 5 bytes, is written on 8 + 8 bytes; the
\* one for BIG-REQUESTS, 12 bytes, has no padding.
C27_Witness ==
  /\ pc = "qe_write" /\ qname = X_EXTENSION_NAME_XTEST /\ io.n = 16
  /\ X_PADDING(5) = 3 /\ X_PADDING(12) = 0 /\ X_PAD(65535) = 65536

\* The smallest multiple of 4 that is not below n.
Pad4(n) == 4 * ((n + 3) \div 4)

\* The layout of a setup request b for a protocol name and credential data.
SetupRequestLayout(name, data, b) ==
  /\ Len(b) = 12 + Pad4(Len(name)) + Pad4(Len(data))
  /\ b[1] = 108 /\ b[2] = 0
  /\ b[3] + 256 * b[4] = 11
  /\ b[5] + 256 * b[6] = 0
  /\ b[7] + 256 * b[8] = Len(name)
  /\ b[9] + 256 * b[10] = Len(data)
  /\ b[11] = 0 /\ b[12] = 0
  /\ SubSeq(b, 13, 12 + Len(name)) = name
  /\ SubSeq(b, 13 + Pad4(Len(name)), 12 + Pad4(Len(name)) + Len(data)) = data
  /\ \A x \in (13 + Len(name)) .. (12 + Pad4(Len(name))) : b[x] = 0
  /\ \A x \in (13 + Pad4(Len(name)) + Len(data)) .. Len(b) : b[x] = 0

\* Names and data of every length up to MaxSampleLen.
MaxSampleLen == 5

SampleStrings == UNION {[1 .. n -> {1, 255}] : n \in 0 .. MaxSampleLen}

SetupRequestLaw ==
  \A name \in SampleStrings, data \in SampleStrings :
    SetupRequestLayout(name, data, SetupRequest(name, data))

\* C28: the setup request is 12 + pad4(name_len) + pad4(data_len) bytes: a
\* header of 12 bytes with 'l', version 11.0 and the two lengths, the
\* protocol name at offset 12, the credential data at offset
\* 12 + pad4(name_len), every padding byte 0; name_len bytes read at offset
\* 12 and data_len bytes read at offset 12 + pad4(name_len) are the name
\* and the data.  So is the buffer x_connect_to_socket hands to write_n.
C28_SetupRequestLayout ==
  /\ SetupRequestLaw
  /\ pc = "hs_write" =>
       /\ ~request_buffer.null
       /\ SetupRequestLayout(auth.name, auth.data, request_buffer.mem)
       /\ io.buf = request_buffer.mem /\ io.n = Len(request_buffer.mem)

\* The request with the credential of the Xauthority file: a name of 3 bytes
\* and data of 5 bytes, both padded, 24 bytes in all.
C28_Witness ==
  /\ pc = "hs_write" /\ auth = MitCredential
  /\ Len(request_buffer.mem) = 24
  /\ SubSeq(request_buffer.mem, 13, 15) = MitCredential.name
  /\ SubSeq(request_buffer.mem, 17, 21) = MitCredential.data

(***************************************************************************)
(* The decoded setup data after the handshake.                             *)
(***************************************************************************)
\* C29: once x_connect_to_socket has returned, no step of the run (the
\* BIG-REQUESTS exchange, the font path query, the extension list, the
\* opcode and version queries) changes the decoded setup data, until
\* x_disconnect releases it.
C29_SetupUnchangedAfterHandshake ==
  [][(HandshakeSucceeded /\ ~released) => setup' = setup]_vars

\* The end of a run that printed an extension and in which the server gave
\* a maximum request length other than the one of the setup data.
C29_Witness ==
  /\ pc = "disconnect" /\ HandshakeSucceeded /\ ~released
  /\ Len(printed) > 0
  /\ max_request_len # 4 * maximum_request_len(setup.data)
  /\ ~setup.roots.null /\ ~setup.vendor_name.null

(***************************************************************************)
(* The entry of NV-GLX in the extension report.                            *)
(***************************************************************************)
\* The loop of print_x_extensions is at the name NV-GLX.
AtNvGlx ==
  /\ InExtLoop /\ i < list_extensions_num_names(reply)
  /\ extension_names[i + 1] = X_EXTENSION_NAME_NV_GLX

\* C30: for the listed name NV-GLX the QueryExtension request carries the
\* name GLX, and when its opcode is not 0 the version request is the one of
\* GLX (sub-opcode 7, two 32-bit fields, 12 bytes) and the version printed
\* is read from the 32-bit fields of the reply; the line printed carries
\* the name NV-GLX.
C30_NvGlxQueriedAsGlx ==
  [][AtNvGlx =>
       /\ (pc = "ext_loop" /\ pc' = "qe_write") =>
            /\ qname' = <<71, 76, 88>>
            /\ io'.buf = <<98, 0, 3, 0, 3, 0, 0, 0, 71, 76, 88, 0>> /\ io'.n = 12
       /\ (pc = "qe_read_ret" /\ opcode' # 0) =>
            /\ pc' = "vq_write"
            /\ io'.buf = <<opcode', 7, 3, 0, 255, 255, 255, 255, 255, 255, 255, 255>>
            /\ io'.n = 12
       /\ (pc = "vq_read_ret") =>
            /\ version' = IF ret = 32 /\ io.buf[1] = 1
                          THEN [ok |-> TRUE, major |-> U32(io.buf, 8), minor |-> U32(io.buf, 12)]
                          ELSE [ok |-> FALSE, major |-> 0, minor |-> 0]
            /\ printed' = Append(printed, [name |-> <<78, 86, 45, 71, 76, 88>>,
                                           version |-> version'])
       /\ (printed' # printed) =>
            printed'[Len(printed')].name = <<78, 86, 45, 71, 76, 88>>]_vars

\* The server listed NV-GLX and GLX: both lines were printed with the
\* version the GLX request gave.
C30_Witness ==
  /\ pc = "ext_loop" /\ i = 2 /\ ListedServer
  /\ Len(printed) = 2
  /\ printed[1].name = X_EXTENSION_NAME_GLX /\ printed[1].version.ok
  /\ printed[2].name = X_EXTENSION_NAME_NV_GLX /\ printed[2].version.ok
  /\ printed[2].version.major = 2 /\ printed[2].version.minor = 4

(***************************************************************************)
(* The host name of the display.                                           *)
(***************************************************************************)
\* C31 (as claimed): for a display name with a host part that is not
\* empty, the hostname parse_x_display_name stores, which is the one
\* resolved and compared with the entries of the Xauthority file, is the
\* chars of the name before the first ':'.  (It fails: snprintf is given
\* the count of those chars as the size of the buffer and stores one char
\* less.)
C31_HostnameIsHostPart ==
  (target # NoTarget /\ env.display.set /\ env.display.host # <<>>) =>
    /\ target.hostname = env.display.host
    /\ LookupHost = env.display.host

(***************************************************************************)
(* The maximum request length of the report.                               *)
(***************************************************************************)
\* C32 (as claimed): the maximum request length is 4 times the value of
\* the setup data unless BIG-REQUESTS resolved to an opcode other than 0
\* and its enable request was answered by 32 bytes with status X_REPLY,
\* and then 4 times the value of that reply; the enable request is written
\* only when the opcode is not 0.  (It fails: the request is written with
\* opcode 0 too, and neither the opcode nor the status of the reply is
\* looked at before the value of the reply is taken.)
C32_MaxRequestLenFromReplyOnly ==
  /\ [](pc = "br_write" => opcode # 0)
  /\ [][pc = "br_read_ret" =>
          max_request_len' =
            IF opcode # 0 /\ ret = 32 /\ io.buf[1] = X_REPLY
            THEN 4 * U32(io.buf, 8)
            ELSE 4 * U16(setup.data, 18)]_vars

(***************************************************************************)
(* The byte stream of the server and the replies read from it.             *)
(***************************************************************************)
\* The server sent for the GetFontPath request what the header of its reply
\* announces: after the header of a reply its additional data are what is
\* left to read, after the header of an error nothing, and after the
\* read() of the additional data what that read() did not take.
WholeFontReplySent ==
  \/ /\ pc = "fp_read_ret" /\ ret = SizeofReply
     /\ Len(inbuf) = IF reply_status(io.buf) = X_REPLY THEN 4 * reply_data_len(io.buf) ELSE 0
  \/ /\ pc = "fp_data_ret"
     /\ Len(inbuf) = io.n - (IF ret > 0 THEN ret ELSE 0)

\* C33 (as claimed, for the exchange that another one follows on every
\* path): when print_x_font_path is left, on its error path too, no byte
\* of the GetFontPath reply is left unread, so that the header which
\* print_x_extensions reads next starts where the reply to its request
\* starts.  (It fails: font_error is reached with additional data unread
\* when malloc fails or when the one read() takes fewer bytes than asked
\* for.)
C33_NextReplyAtBoundary ==
  [][(WholeFontReplySent /\ pc' = "le_write") => inbuf' = <<>>]_vars

(***************************************************************************)
(* The requests written after the handshake.                               *)
(***************************************************************************)
\* C34: every request written after the handshake (QueryExtension,
\* ListExtensions, GetFontPath, the BIG-REQUESTS enable request, every
\* version request) is written on 4 times the request_len its bytes 2..3
\* carry, and those are the bytes the server receives when write_n returns
\* the whole count; the QueryExtension request is 8 + pad4(name_len) bytes
\* with name_len at offset 4, the name at offset 8 and zeros after it.
C34_WrittenBytesMatchRequestLen ==
  /\ (pc \in WritePcs \ {"hs_write"}) =>
       /\ Len(io.buf) = io.n
       /\ io.n = 4 * (io.buf[3] + 256 * io.buf[4])
  /\ (pc \in WrittenPcs \ {"hs_written"} /\ ret = io.n) =>
       /\ wire = io.buf
       /\ Len(wire) = 4 * (wire[3] + 256 * wire[4])
  /\ (pc = "qe_write") =>
       /\ io.n = 8 + Pad4(Len(qname))
       /\ io.buf[5] + 256 * io.buf[6] = Len(qname)
       /\ SubSeq(io.buf, 9, 8 + Len(qname)) = qname
       /\ \A x \in (9 + Len(qname)) .. io.n : io.buf[x] = 0

\* The version request of MIT-SCREEN-SAVER, 8 bytes with request_len 2,
\* has reached the server.
C34_Witness ==
  /\ pc = "vq_written" /\ ret = 8
  /\ x_get_extension_version(qname) = "x_mit_screen_saver_query_version"
  /\ wire = <<opcode, X_OPCODE_MIT_SCREEN_SAVER_QUERY_VERSION, 2, 0, 255, 255, 0, 0>>

(***************************************************************************)
(* The replies read after the handshake.                                   *)
(***************************************************************************)
ReplyReadPcs == {"qe_read", "br_read", "fp_read", "le_read", "vq_read"}

Ascending(names) ==
  \A a, b \in 1 .. Len(names) : a < b => string_comparator(names[a], names[b]) <= 0

\* The steps the loop takes for one name, in their order: the QueryExtension
\* request, its reply, the version request, its reply, the next name.
OneNameAtMostOnce ==
  /\ [][(InExtLoop /\ pc = "ext_loop") =>
          /\ pc' \in {"qe_write", "ext_loop", "disconnect"}
          /\ (pc' = "disconnect") <=> (i = list_extensions_num_names(reply))
          /\ (pc' = "qe_write") =>
               (i' = i /\ SubSeq(io'.buf, 9, 8 + Len(qname')) = QueriedName(extension_names[i + 1]))
          /\ (pc' = "ext_loop") => (i' = i + 1 /\ printed' = printed)]_vars
  /\ [][(InExtLoop /\ pc = "qe_written") =>
          \/ pc' = "qe_read" /\ i' = i /\ ret = io.n
          \/ pc' = "ext_loop" /\ i' = i + 1 /\ ret # io.n]_vars
  /\ [][(InExtLoop /\ pc = "qe_read_ret") =>
          \/ pc' = "vq_write" /\ i' = i /\ opcode' # 0
          \/ pc' = "ext_loop" /\ i' = i + 1]_vars
  /\ [][(pc = "vq_written") =>
          \/ pc' = "vq_read" /\ i' = i /\ ret = io.n
          \/ pc' = "ext_loop" /\ i' = i + 1 /\ ret # io.n]_vars
  /\ [][(pc = "vq_read_ret") => (pc' = "ext_loop" /\ i' = i + 1)]_vars
  /\ [][(InExtLoop /\ pc \in {"qe_write", "qe_read", "vq_write", "vq_read"}) =>
          (i' = i /\ pc' \in {pc, AfterPc(pc), "killed"})]_vars

\* C36 (amended): after a ListExtensions exchange that succeeded the names
\* are gone through in ascending order of their bytes; for each name the
\* loop reaches, at most one QueryExtension request is written (none when
\* its buffer cannot be allocated) and at most one version request, that
\* one only when the opcode resolved is not 0; whatever fails, the loop
\* goes to the next name and writes nothing again for the name it leaves.
C36_OrderedAtMostOneQueryPerName ==
  /\ [](InExtLoop => Ascending(extension_names))
  /\ OneNameAtMostOnce

\* The server listed NV-GLX before GLX; GLX was queried first.
C36_Witness ==
  /\ pc = "ext_loop" /\ i = 2 /\ Len(printed) = 2
  /\ extension_names = <<X_EXTENSION_NAME_GLX, X_EXTENSION_NAME_NV_GLX>>
  /\ printed[1].name = X_EXTENSION_NAME_GLX /\ printed[2].name = X_EXTENSION_NAME_NV_GLX

\* C36 (as claimed): the names are gone through in ascending order of
\* their bytes; for each name exactly one QueryExtension request is
\* written, and a version request only when the opcode resolved is not 0.
\* (It fails: when the buffer of the request cannot be allocated the loop
\* goes to the next name without a request.)
C36_ExactlyOneQueryPerName ==
  /\ [](InExtLoop => Ascending(extension_names))
  /\ [][(InExtLoop /\ pc = "ext_loop" /\ i < list_extensions_num_names(reply)) =>
          pc' = "qe_write"]_vars
  /\ [][(pc' = "vq_write" /\ pc # "vq_write") => opcode' # 0]_vars

(***************************************************************************)
(* Termination of read_n and write_n.                                      *)
(***************************************************************************)
\* C37: read_n and write_n terminate.  While a call runs, every system
\* call either is interrupted (EINTR, a bounded number of times) or moves
\* at least one byte, the count of bytes moved never passing n, so that a
\* call for n bytes returns after n transfers at the latest; a write() that
\* returns 0 ends write_n with -1; the run is again and again outside of
\* every call, that is, every call that was entered is left.
C37_TransfersTerminate ==
  /\ [](pc \in ReadNPcs \cup WritePcs => (io.total <= io.n /\ io.eintr <= MaxEintr))
  /\ [][(pc \in ReadNPcs \cup WritePcs /\ pc' = pc) =>
          \/ io'.total > io.total /\ io'.eintr = io.eintr /\ sys'.res = "n"
          \/ io'.total = io.total /\ io'.eintr = io.eintr + 1 /\ sys'.res = "eintr"]_vars
  /\ [][(pc \in WritePcs /\ sys'.op = "write" /\ sys'.res = "zero") =>
          (pc' = AfterPc(pc) /\ ret' = -1)]_vars
  /\ []<>(pc \notin ReadNPcs \cup WritePcs)

\* read_n has returned the 8 bytes of the header after an interrupted call
\* and a call that gave only a part of them.
C37_Witness ==
  /\ pc = "hs_hdr_ret" /\ ret = 8 /\ io.total = 8
  /\ io.eintr = 1 /\ io.short = 1

(***************************************************************************)
(* x_disconnect.                                                           *)
(***************************************************************************)
\* The loops of x_disconnect stay within the lists they walk: a roots list
\* that is allocated holds num_roots screens, and a list of depths that is
\* allocated holds num_allowed_depths depths; a list that was not
\* allocated is a null pointer, which is skipped or given to free as such.
ReleasesAllocatedListsOnly(s) ==
  /\ s.roots.null \/ Len(s.roots.mem) = num_roots(s.data)
  /\ \A si \in 1 .. Len(s.roots.mem) :
       LET depths == s.roots.mem[si].allowed_depths IN
         /\ depths.null \/ Len(depths.mem) = num_allowed_depths(s.roots.mem[si].data)
         /\ depths.null => depths.mem = <<>>
         /\ \A di \in 1 .. Len(depths.mem) :
              depths.mem[di].visuals.null => depths.mem[di].visuals.mem = <<>>

\* C38: x_disconnect runs at most once in a run: the process ends in the
\* step that runs it, so the connection is closed once at most and no list
\* of the setup data is released twice; when it runs after a decode that
\* stopped part-way, its loops walk lists that were allocated with the
\* counts the loops use, the lists not yet allocated being null.
C38_DisconnectAtMostOnce ==
  /\ [](closes <= 1)
  /\ [](released => (pc = "exited" /\ ~fd_open /\ fd = NoFd))
  /\ [][~released]_vars
  /\ [][(released' /\ ~released) => ReleasesAllocatedListsOnly(setup')]_vars

\* x_disconnect ran after the list of depths of the second screen could
\* not be allocated.
C38_Witness ==
  /\ pc = "exited" /\ released /\ closes = 1 /\ exit_status = 1
  /\ ~setup.roots.null /\ Len(setup.roots.mem) = 2
  /\ ~setup.roots.mem[1].allowed_depths.null
  /\ setup.roots.mem[2].allowed_depths.null

(***************************************************************************)
(* Termination of the scan of the Xauthority file.                         *)
(***************************************************************************)
\* Every iteration of the loop that starts before the end of the file
\* leaves the stream further on, having read a whole field (two bytes at
\* least) or being at the end of the file; one that could not read its
\* entry in full is at the end of the file, where the condition of the
\* loop ends the scan.
ScanAdvances(file) ==
  \A pos \in 0 .. (Len(file) - 1) :
    LET it == ScanIteration(file, pos) IN
      /\ pos < it.pos /\ it.pos <= Len(file)
      /\ it.pos >= pos + 2 \/ it.pos = Len(file)
      /\ ~it.ok => it.pos = Len(file)
      /\ it.ok => it.pos >= pos + 10

\* A file of two entries and what is left of it when it ends at any byte.
TwoEntriesBytes ==
  XauthorityBytes(Xauthority(<<XauthRecord(<<104>>, 0, MitCredential),
                               XauthRecord(<<104>>, 0, OtherCredential)>>))

TruncatedFiles == {SubSeq(TwoEntriesBytes, 1, n) : n \in 0 .. Len(TwoEntriesBytes)}

TruncatedFilesLaw == \A file \in TruncatedFiles : ScanAdvances(file)

\* C39: the scan of the Xauthority file terminates whatever the file
\* holds, a file that ends in the middle of an entry included: every
\* iteration reads at least one whole field or reaches the end of the
\* file, and the loop stops there.  So it is for the file of the run once
\* x_connect_to_display has gone through it.
C39_XauthorityScanTerminates ==
  /\ TruncatedFilesLaw
  /\ (pc = "get_socket" /\ env.xauthority.readable) =>
       ScanAdvances(XauthorityBytes(env.xauthority))

\* The file of the run lacks the last two bytes of its second entry: the
\* scan ended and the credential of the first entry is used.
C39_Witness ==
  /\ pc = "connect_to_socket" /\ env.xauthority.cut = 2
  /\ auth = MitCredential

=============================================================================
